---- MODULE Spec2Model ----
(***************************************************************************)
(* A model of the three programs of the repository:                        *)
(*   src/tasks/DOUBAN_HOT.py  crawl_top_n, upsert_movie, ensure_dim_and_map *)
(*   src/main.py              the test_users commands, cmd_dedupe           *)
(* Optional values (Python None / SQL NULL) are encoded as tuples: None is  *)
(* <<>> and a present value v is <<v>>.                                     *)
(***************************************************************************)
EXTENDS Integers, Sequences, FiniteSets, Bags, TLC

VARIABLES
  \* ---- crawl_top_n (DOUBAN_HOT.py) ----
  top,        \* n, the argument of crawl_top_n
  cpc,        \* position of crawl_top_n: "fetch", "returned", "raised"
  page_i,     \* i, the number of pages fetched so far
  all_items,  \* all_items
  uniq,       \* the returned list (uniq[:n])
  \* ---- test_users and cmd_dedupe (main.py) ----
  test_users,   \* the rows of test_users: [id, name, email]
  users_auto,   \* the table's AUTO_INCREMENT counter
  email_unique, \* whether the table carries the UNIQUE index on email
  outcome,      \* how the last finished command ended
  dpc,          \* position of cmd_dedupe: "idle", "delete", "done"
  ids,          \* ids, the loser ids in the order the query returned them
  chunk_i,      \* i, the offset of the next chunk
  total,        \* total
  removed,      \* the count printed by "Removed duplicates", None if none
  before,       \* history: test_users when the loser query ran
  statements,   \* history: DELETE statements issued by this run
  second,       \* history: this run started right after a completed run
  prev_total,   \* history: total of the run before this one
  inserted,     \* history: the rows inserted between the latest loser query
                \* and the end of its pass
  \* ---- the Douban store and the processes running main (DOUBAN_HOT.py) ----
  douban_movies,  \* rows [id, douban_id, rank_no, title, year, grabbed_at]
  movies_auto,    \* AUTO_INCREMENT counter of douban_movies
  dim_rows,       \* kind -> rows [id, name] of douban_genre / douban_country
  dim_auto,       \* kind -> AUTO_INCREMENT counter of the dimension table
  map_rows,       \* kind -> bag of rows [movie_id, dim_id] of the map table
  clock,          \* datetime.datetime.now()
  proc,           \* process -> the locals of main, upsert_movie and
                  \* ensure_dim_and_map, and the position in them
  calls,          \* history: the finished upsert_movie calls, in order
  dim_got,        \* history: every [kind, name, id] a dimension upsert gave
  attempts,       \* history: bag of the association inserts executed
  snap,           \* history: the store when the latest run of main began
  prev_batch,     \* history: the batch of the run before the latest one
  \* ---- get_top_n (BAIDU_HOT.py) ----
  html,        \* the fetched document: the embedded data and the cards
  want,        \* n, the argument of get_top_n
  bpc,         \* position of get_top_n: "fetch", "structured", "fallback",
               \* "returned", "raised"
  top_items,   \* items, the list get_top_n builds and returns
  structured,  \* history: what parse_from_initial_state returned
  \* ---- baidu_hotsearch and main (BAIDU_HOT.py) ----
  baidu_hotsearch, \* rows [id, rank_no, title, url, grabbed_at, grabbed_date]
  baidu_auto,      \* AUTO_INCREMENT counter of baidu_hotsearch
  now,             \* datetime.datetime.now(): [day, t]
  spc,             \* position of main: "idle", "try", "save", "finally",
                   \* "exited"
  bdb,             \* db of main: "none", "open", "closed"
  berror,          \* the exception raised in main, None if none
  bexit,           \* the exception the process ended with, None if none
  saving,          \* items of main
  saves,           \* history: the number of runs of main so far
  pre,             \* history: baidu_hotsearch before the latest save_items
  \* ---- a whole run of the Douban main ----
  at_start,        \* history: the Douban tables when the latest run began
  \* ---- main of main.py ----
  mpc,             \* position of main: "idle", "try", "finally", "exited"
  mdb,             \* db of main: "none", "open", "closed"
  mraised,         \* the exception the command raised, None if none
  mexit,           \* the exception the process ended with, None if none
  mruns,           \* history: the number of runs of main so far
  \* ---- deletions in the Douban tables ----
  cascaded,        \* history: the association rows deleted with a parent
  \* ---- main.py: cmd_tx_demo and its connection ----
  tpc,             \* position in cmd_tx_demo: "idle", "begun", "first",
                   \* "commit", "except", "finally", "returned"
  autocommit,      \* the autocommit mode of the connection
  work,            \* test_users as the open transaction of the connection
                   \* has it, None when no transaction is open
  tx_before,       \* history: test_users when cmd_tx_demo was entered
  tx_error,        \* the exception the inner except clause caught
  \* ---- main.py: one command after another ----
  last,            \* history: the latest command, its arguments and
                   \* test_users as it found it
  rpc,             \* position in cmd_reindex: "idle", "update", "done"
  count,           \* the user variable @count of the session
  pending          \* the ids of the rows the UPDATE has still to visit

crawlVars == <<top, cpc, page_i, all_items, uniq>>

usersVars == <<test_users, users_auto, email_unique, outcome, dpc, ids,
               chunk_i, total, removed, before, statements, second,
               prev_total, inserted>>

storeVars == <<douban_movies, movies_auto, dim_rows, dim_auto, map_rows,
               clock, proc, calls, dim_got, attempts, snap, prev_batch>>

baiduVars == <<html, want, bpc, top_items, structured>>

saveVars == <<baidu_hotsearch, baidu_auto, now, spc, bdb, berror, bexit,
              saving, saves, pre>>

pipeVars == <<at_start>>

lifeVars == <<mpc, mdb, mraised, mexit, mruns>>

delVars == <<cascaded>>

txVars == <<tpc, autocommit, work, tx_before, tx_error>>

cmdVars == <<last, rpc, count, pending>>

vars == <<crawlVars, usersVars, storeVars, baiduVars, saveVars, pipeVars,
          lifeVars, delVars, txVars, cmdVars>>

\* What the actions of one part leave alone: the other parts.
exceptCrawl == <<usersVars, storeVars, baiduVars, saveVars, pipeVars, lifeVars, delVars, txVars, cmdVars>>

exceptUsers == <<crawlVars, storeVars, baiduVars, saveVars, pipeVars, lifeVars, delVars, txVars, cmdVars>>

exceptStore == <<crawlVars, usersVars, baiduVars, saveVars, pipeVars, lifeVars, delVars, txVars, cmdVars>>

exceptBaidu == <<crawlVars, usersVars, storeVars, saveVars, pipeVars, lifeVars, delVars, txVars, cmdVars>>

exceptSave == <<crawlVars, usersVars, storeVars, baiduVars, pipeVars, lifeVars, delVars, txVars, cmdVars>>

None == <<>>
Some(v) == <<v>>
The(o) == o[1]

\* ------------------------------------------------------------------------
\* Bounds
\* ------------------------------------------------------------------------
MaxPageItems == 2
MaxTop == 2
MaxUserId == 4
MaxRuns == 2
MaxBatch == 2
MaxEntries == 2
MaxCards == 2
MaxSaves == 2
MaxDay == 2

\* ------------------------------------------------------------------------
\* crawl_top_n
\* ------------------------------------------------------------------------
PageSize == 25
RankSentinel == 9999

\* The items parse_list can emit, restricted to the fields the dedupe step
\* and the sort read (douban_id, title, year, rank_no).
TitleYears == {<<"A", Some(1994)>>, <<"A", None>>, <<"B", Some(1994)>>}

RankNos == {None, Some(0), Some(1)}

CrawlItems ==
  {[douban_id |-> Some("1"), title |-> "A", year |-> Some(1994),
    rank_no |-> r, genres |-> << <<"g">> >>, countries |-> <<>>] :
     r \in RankNos}
  \cup
  {[douban_id |-> None, title |-> ty[1], year |-> ty[2],
    rank_no |-> r, genres |-> <<>>, countries |-> <<>>] :
     ty \in TitleYears, r \in RankNos}

SeqsUpTo(S, k) == UNION {[1..j -> S] : j \in 0..k}

\* One fetched and parsed page.
PageItems == SeqsUpTo(CrawlItems, MaxPageItems)

\* n values: none, fewer than one page, more than one page.
Tops == (0..MaxTop) \cup {PageSize + 1}

\* pages = (n + 24) // 25
pages(n) == (n + (PageSize - 1)) \div PageSize

\* key = it.get("douban_id") or (it["title"], it.get("year"))
\* (a douban_id is a match of \d+, never the empty string, so it is falsy
\* only when it is None)
first_key(it) == <<"douban_id", The(it.douban_id)>>

title_year_key(it) == <<"title_year", it.title, it.year>>

dedup_key(it) ==
  IF it.douban_id # None THEN first_key(it) ELSE title_year_key(it)

\* The loop of lines 221-227: first occurrence of a key is appended, later
\* ones are skipped.
RECURSIVE dedupe_keep_last(_, _, _)
dedupe_keep_last(items, seen, acc) ==
  IF items = <<>> THEN acc
  ELSE LET it == Head(items)
           key == dedup_key(it)
       IN IF key \in seen
          THEN dedupe_keep_last(Tail(items), seen,
                 [j \in 1..Len(acc) |->
                    IF dedup_key(acc[j]) = key THEN it ELSE acc[j]])
          ELSE dedupe_keep_last(Tail(items), seen \cup {key}, Append(acc, it))

RECURSIVE dedupe_loop(_, _, _)
dedupe_loop(items, seen, acc) ==
  IF items = <<>> THEN acc
  ELSE LET it == Head(items)
           key == dedup_key(it)
       IN IF key \in seen
          THEN dedupe_loop(Tail(items), seen, acc)
          ELSE dedupe_loop(Tail(items), seen \cup {key}, Append(acc, it))

dedupe(items) == dedupe_loop(items, {}, <<>>)

\* key=lambda x: x["rank_no"] or 9999 : None and 0 are falsy
sort_key(x) ==
  IF x.rank_no = None \/ The(x.rank_no) = 0 THEN RankSentinel
  ELSE The(x.rank_no)

\* list.sort is stable: an element goes after every element whose key is
\* less than or equal to its own.
RECURSIVE sort_by_rank(_)
sort_by_rank(s) ==
  IF s = <<>> THEN <<>>
  ELSE LET init == sort_by_rank(SubSeq(s, 1, Len(s) - 1))
           x == s[Len(s)]
           pos == Cardinality({j \in 1..Len(init) : sort_key(init[j]) <= sort_key(x)})
       IN SubSeq(init, 1, pos) \o <<x>> \o SubSeq(init, pos + 1, Len(init))

\* uniq[:n] for n >= 0
truncate(s, n) == SubSeq(s, 1, IF n < Len(s) THEN n ELSE Len(s))

\* lines 220-230 of crawl_top_n
crawl_result(items, n) == truncate(sort_by_rank(dedupe(items)), n)

CrawlStart ==
  /\ top \in Tops
  /\ cpc = "fetch"
  /\ page_i = 0
  /\ all_items = <<>>
  /\ uniq = <<>>

\* One iteration of the page loop: fetch_list_page, parse_list, extend.
FetchPage ==
  /\ cpc = "fetch"
  /\ page_i < pages(top)
  /\ \E page_items \in PageItems : all_items' = all_items \o page_items
  /\ page_i' = page_i + 1
  /\ UNCHANGED <<top, cpc, uniq>>
  /\ UNCHANGED exceptCrawl

\* fetch_list_page raises (timeout, raise_for_status): crawl_top_n is left.
FetchFails ==
  /\ cpc = "fetch"
  /\ page_i < pages(top)
  /\ cpc' = "raised"
  /\ UNCHANGED <<top, page_i, all_items, uniq>>
  /\ UNCHANGED exceptCrawl

\* The dedupe, the sort and the truncation, after the last page.
DedupeSortReturn ==
  /\ cpc = "fetch"
  /\ page_i = pages(top)
  /\ uniq' = crawl_result(all_items, top)
  /\ cpc' = "returned"
  /\ UNCHANGED <<top, page_i, all_items>>
  /\ UNCHANGED exceptCrawl

\* No crawl in this run.
CrawlOff ==
  /\ top = 0
  /\ cpc = "off"
  /\ page_i = 0
  /\ all_items = <<>>
  /\ uniq = <<>>

\* ------------------------------------------------------------------------
\* main.py: test_users
\* A string is a tuple of pieces; the piece " " is whitespace.
\* ------------------------------------------------------------------------
CHUNK == 2   \* 500 in the source, scaled down so that small tables need
             \* more than one chunk

IsSpace(c) == c = " "

\* str.strip()
RECURSIVE lstrip(_)
lstrip(str) ==
  IF str # <<>> /\ IsSpace(Head(str)) THEN lstrip(Tail(str)) ELSE str

RECURSIVE rstrip(_)
rstrip(str) ==
  IF str # <<>> /\ IsSpace(str[Len(str)])
  THEN rstrip(SubSeq(str, 1, Len(str) - 1)) ELSE str

strip(str) == rstrip(lstrip(str))

UserNames == {"n1", "n2"}

Emails == {<<"a@x">>, <<"b@x">>}

InsertEmails == Emails \cup {<<" ">>}

\* (as cmd_insert would do it with INSERT IGNORE: a taken email is skipped
\* without an error)
cmd_insert_ignore(name, email) ==
  /\ users_auto <= MaxUserId
  /\ IF strip(email) = <<>>
     THEN /\ outcome' = "ValueError"
          /\ UNCHANGED <<test_users, users_auto>>
     ELSE /\ test_users' =
               IF email_unique /\ \E r \in test_users : r.email = email
               THEN test_users
               ELSE test_users \cup
                      {[id |-> users_auto, name |-> name, email |-> email]}
          /\ users_auto' = users_auto + 1
          /\ outcome' = "ok"

\* cmd_insert
cmd_insert(name, email) ==
  /\ users_auto <= MaxUserId
  /\ IF strip(email) = <<>>
     THEN \* raise ValueError("Email cannot be empty")
          /\ outcome' = "ValueError"
          /\ UNCHANGED <<test_users, users_auto>>
     ELSE IF email_unique /\ \E r \in test_users : r.email = email
     THEN \* duplicate entry for the unique key: the statement fails, and
          \* InnoDB does not give the reserved AUTO_INCREMENT value back
          /\ outcome' = "IntegrityError"
          /\ users_auto' = users_auto + 1
          /\ UNCHANGED test_users
     ELSE /\ test_users' = test_users \cup
               {[id |-> users_auto, name |-> name, email |-> email]}
          /\ users_auto' = users_auto + 1
          /\ outcome' = "ok"

\* SAMPLE_USERS
SAMPLE_USERS ==
  << <<"Alice Smith", <<"alice@example.com">> >>,
     <<"Bob Johnson", <<"bob@example.com">> >>,
     <<"Charlie Brown", <<"charlie@example.com">> >> >>

\* INSERT IGNORE INTO test_users (name, email) VALUES ..., one multi-row
\* statement: a row whose email is taken is skipped without an error, and
\* the AUTO_INCREMENT value reserved for it is not given back.
RECURSIVE insert_ignore_users(_, _, _, _)
insert_ignore_users(rows, auto, unique, values) ==
  IF values = <<>> THEN [rows |-> rows, auto |-> auto]
  ELSE LET v == Head(values)
           taken == unique /\ \E r \in rows : r.email = v[2]
       IN insert_ignore_users(
            IF taken THEN rows
            ELSE rows \cup {[id |-> auto, name |-> v[1], email |-> v[2]]},
            auto + 1, unique, Tail(values))

\* cmd_seed
cmd_seed ==
  /\ users_auto <= MaxUserId
  /\ LET res == insert_ignore_users(test_users, users_auto, email_unique,
                                    SAMPLE_USERS)
     IN /\ test_users' = res.rows
        /\ users_auto' = res.auto
  /\ outcome' = "ok"

\* cmd_update_name
cmd_update_name(user_id, new_name) ==
  /\ test_users' = {IF r.id = user_id THEN [r EXCEPT !.name = new_name] ELSE r :
                      r \in test_users}
  /\ outcome' = "ok"
  /\ UNCHANGED users_auto

\* cmd_update_email
cmd_update_email(user_id, new_email) ==
  /\ IF /\ email_unique
        /\ \E r \in test_users : r.id = user_id
        /\ \E r \in test_users : r.id # user_id /\ r.email = new_email
     THEN /\ outcome' = "IntegrityError"
          /\ UNCHANGED test_users
     ELSE /\ test_users' =
               {IF r.id = user_id THEN [r EXCEPT !.email = new_email] ELSE r :
                  r \in test_users}
          /\ outcome' = "ok"
  /\ UNCHANGED users_auto

\* cmd_delete
cmd_delete(user_id) ==
  /\ test_users' = {r \in test_users : r.id # user_id}
  /\ outcome' = "ok"
  /\ UNCHANGED users_auto

\* SELECT DISTINCT t1.id FROM test_users t1 JOIN test_users t2
\*   ON t1.email = t2.email AND t1.id > t2.id
\* (as a join on t1.id >= t2.id would do it: every row joins itself)
to_delete_with_self(rows) ==
  {t1.id : t1 \in {r \in rows :
                     \E t2 \in rows : r.email = t2.email /\ r.id >= t2.id}}

to_delete_keep_largest(rows) ==
  {t1.id : t1 \in {r \in rows :
                     \E t2 \in rows : r.email = t2.email /\ r.id < t2.id}}

to_delete(rows) ==
  {t1.id : t1 \in {r \in rows :
                     \E t2 \in rows : r.email = t2.email /\ r.id > t2.id}}

\* The orders in which a query without ORDER BY may return a set of ids.
Orders(S) ==
  {f \in [1..Cardinality(S) -> S] : \A i, j \in 1..Cardinality(S) :
                                       f[i] = f[j] => i = j}

\* batch = ids[i:i+CHUNK]
batch_short(list, i) ==
  SubSeq(list, i + 1, IF i + CHUNK - 1 < Len(list) THEN i + CHUNK - 1 ELSE Len(list))

batch(list, i) ==
  SubSeq(list, i + 1, IF i + CHUNK < Len(list) THEN i + CHUNK ELSE Len(list))

Range(f) == {f[x] : x \in DOMAIN f}

\* cmd_dedupe, up to its first return or its first DELETE: the loser query.
DedupeQuery ==
  /\ dpc \in {"idle", "done"}
  /\ before' = test_users
  /\ inserted' = {}
  /\ second' = (dpc = "done")
  /\ prev_total' = total
  /\ statements' = 0
  /\ \E order \in Orders(to_delete(test_users)) : ids' = order
  /\ chunk_i' = 0
  /\ total' = 0
  /\ removed' = None
  /\ IF to_delete(test_users) = {}
     THEN \* print("No duplicates."); return
          /\ dpc' = "done"
          /\ outcome' = "ok"
     ELSE /\ dpc' = "delete"
          /\ UNCHANGED outcome
  /\ UNCHANGED <<test_users, users_auto, email_unique>>
  /\ UNCHANGED exceptUsers

\* One iteration of the chunk loop: DELETE ... WHERE id IN (batch); after
\* the last one, print the total and return.
DedupeDelete ==
  /\ dpc = "delete"
  /\ LET b == Range(batch(ids, chunk_i))
         hit == {r \in test_users : r.id \in b}
     IN /\ test_users' = test_users \ hit
        /\ total' = total + Cardinality(hit)
        /\ statements' = statements + 1
        /\ chunk_i' = chunk_i + CHUNK
        /\ IF chunk_i + CHUNK >= Len(ids)
           THEN /\ dpc' = "done"
                /\ removed' = Some(total + Cardinality(hit))
                /\ outcome' = "ok"
           ELSE UNCHANGED <<dpc, removed, outcome>>
  /\ UNCHANGED <<users_auto, email_unique, ids, before, second, prev_total,
                 inserted>>
  /\ UNCHANGED exceptUsers

\* A command other than dedupe, run to its end by its own process.
CmdInsert ==
  /\ \E name \in UserNames, email \in InsertEmails : cmd_insert(name, email)
  /\ inserted' = IF dpc = "delete"
                 THEN inserted \cup (test_users' \ test_users) ELSE inserted
  /\ dpc' = IF dpc = "done" THEN "idle" ELSE dpc
  /\ UNCHANGED <<email_unique, ids, chunk_i, total, removed, before,
                 statements, second, prev_total>>
  /\ UNCHANGED exceptUsers

CmdSeed ==
  /\ cmd_seed
  /\ inserted' = IF dpc = "delete"
                 THEN inserted \cup (test_users' \ test_users) ELSE inserted
  /\ dpc' = IF dpc = "done" THEN "idle" ELSE dpc
  /\ UNCHANGED <<email_unique, ids, chunk_i, total, removed, before,
                 statements, second, prev_total>>
  /\ UNCHANGED exceptUsers

CmdUpdateName ==
  /\ \E r \in test_users, name \in UserNames :
       /\ name # r.name
       /\ cmd_update_name(r.id, name)
  /\ dpc' = IF dpc = "done" THEN "idle" ELSE dpc
  /\ UNCHANGED <<email_unique, ids, chunk_i, total, removed, before,
                 statements, second, prev_total, inserted>>
  /\ UNCHANGED exceptUsers

CmdUpdateEmail ==
  /\ \E r \in test_users, email \in Emails :
       /\ email # r.email
       /\ cmd_update_email(r.id, email)
  /\ dpc' = IF dpc = "done" THEN "idle" ELSE dpc
  /\ UNCHANGED <<email_unique, ids, chunk_i, total, removed, before,
                 statements, second, prev_total, inserted>>
  /\ UNCHANGED exceptUsers

CmdDelete ==
  /\ \E r \in test_users : cmd_delete(r.id)
  /\ dpc' = IF dpc = "done" THEN "idle" ELSE dpc
  /\ UNCHANGED <<email_unique, ids, chunk_i, total, removed, before,
                 statements, second, prev_total, inserted>>
  /\ UNCHANGED exceptUsers

\* The table right after cmd_init: empty. A table that existed before
\* (CREATE TABLE IF NOT EXISTS leaves it as it is) may lack the UNIQUE index.
UsersStart ==
  /\ test_users = {}
  /\ users_auto = 1
  /\ email_unique \in BOOLEAN
  /\ outcome = "ok"
  /\ dpc = "idle"
  /\ ids = <<>>
  /\ chunk_i = 0
  /\ total = 0
  /\ removed = None
  /\ before = {}
  /\ statements = 0
  /\ second = FALSE
  /\ prev_total = 0
  /\ inserted = {}

UsersOff ==
  /\ test_users = {}
  /\ users_auto = 1
  /\ email_unique = TRUE
  /\ outcome = "ok"
  /\ dpc = "off"
  /\ ids = <<>>
  /\ chunk_i = 0
  /\ total = 0
  /\ removed = None
  /\ before = {}
  /\ statements = 0
  /\ second = FALSE
  /\ prev_total = 0
  /\ inserted = {}

\* ------------------------------------------------------------------------
\* DOUBAN_HOT.py: the store, upsert_movie, ensure_dim_and_map, main
\* Every statement handed to the store gateway is one atomic step.
\* ------------------------------------------------------------------------
Procs == {1, 2}

Kinds == {"genre", "country"}

\* Names as parse_list may emit them: "g", " g" (padded), "h", "c".
G == <<"g">>
PaddedG == <<" ", "g">>
H == <<"h">>
C == <<"c">>

\* (genres, countries) of a parsed card
NoNames == << <<>>, <<>> >>
PaddedAndRepeated == << <<PaddedG, G>>, <<C>> >>
TwoGenres == << <<G, H>>, <<>> >>

store_movie(d, t, nl) ==
  [douban_id |-> d, title |-> t, year |-> Some(1994), rank_no |-> Some(1),
   genres |-> nl[1], countries |-> nl[2]]

\* The records main may hand to upsert_movie: one without a douban_id, one
\* movie sighted with two titles and with or without names, and a second
\* movie that shares a genre with the first.
StoreMovies ==
  {store_movie(None, "A", TwoGenres)}
  \cup {store_movie(Some("1"), t, nl) :
          t \in {"A", "B"}, nl \in {NoNames, PaddedAndRepeated}}
  \cup {store_movie(Some("2"), "A", nl) : nl \in {PaddedAndRepeated, TwoGenres}}

\* What crawl_top_n can return: deduped, sorted, at most n items.
Batches ==
  {b \in SeqsUpTo(StoreMovies, MaxBatch) : b = crawl_result(b, Len(b))}

\* UPSERT_MOVIE_SQL on a row set; new_id is the AUTO_INCREMENT value the
\* statement reserved, ts the grabbed_at parameter.
movie_row(m, id, ts) ==
  [id |-> id, douban_id |-> m.douban_id, rank_no |-> m.rank_no,
   title |-> m.title, year |-> m.year, grabbed_at |-> ts]

\* (as REPLACE INTO would do it: the old row goes, a new one comes)
replace_into(rows, m, new_id, ts) ==
  {r \in rows : r.douban_id # m.douban_id} \cup {movie_row(m, new_id, ts)}

\* (as an INSERT on a table without uk_douban would do it)
insert_without_key(rows, m, new_id, ts) ==
  rows \cup {movie_row(m, new_id, ts)}

\* (as an upsert whose UPDATE list forgot title)
upsert_keeps_title(rows, m, new_id, ts) ==
  IF \E r \in rows : r.douban_id = m.douban_id
  THEN {IF r.douban_id = m.douban_id
        THEN [movie_row(m, r.id, ts) EXCEPT !.title = r.title] ELSE r : r \in rows}
  ELSE rows \cup {movie_row(m, new_id, ts)}

insert_on_duplicate_key_update(rows, m, new_id, ts) ==
  IF \E r \in rows : r.douban_id = m.douban_id
  THEN {IF r.douban_id = m.douban_id THEN movie_row(m, r.id, ts) ELSE r :
          r \in rows}
  ELSE rows \cup {movie_row(m, new_id, ts)}

\* The NOT NULL columns of CREATE_MOVIES that the statement is given a value
\* for: a NULL in one of them fails a single-row INSERT.
not_null_violation(m) == m.douban_id = None \/ m.rank_no = None

\* INSERT INTO {dim_table}(name) VALUES (%s) ON DUPLICATE KEY UPDATE
\*   id = LAST_INSERT_ID(id), name = VALUES(name); then cur.lastrowid
dim_insert_blind(rows, name, new_id) ==
  [rows |-> rows \cup {[id |-> new_id, name |-> name]}, lastrowid |-> new_id]

dim_upsert(rows, name, new_id) ==
  IF \E r \in rows : r.name = name
  THEN [rows |-> rows,
        lastrowid |-> (CHOOSE r \in rows : r.name = name).id]
  ELSE [rows |-> rows \cup {[id |-> new_id, name |-> name]},
        lastrowid |-> new_id]

\* INSERT IGNORE INTO {map_table}(movie_id, fk) VALUES (%s, %s): a row whose
\* primary key exists, or whose parents do not, is not inserted and the
\* statement does not fail.
insert_plain(rows, row, parents_exist) ==
  IF BagIn(row, rows)
  THEN [rows |-> rows, error |-> Some("DuplicateEntry")]
  ELSE [rows |-> rows (+) SetToBag({row}), error |-> None]

insert_ignore(rows, row, parents_exist) ==
  IF BagIn(row, rows) \/ ~parents_exist
  THEN [rows |-> rows, error |-> None]
  ELSE [rows |-> rows (+) SetToBag({row}), error |-> None]

\* (as the loop would do it without its seen set: repeats are kept)
RECURSIVE clean_names_keep_repeats(_)
clean_names_keep_repeats(names) ==
  IF names = <<>> THEN <<>>
  ELSE IF strip(Head(names)) = <<>> THEN clean_names_keep_repeats(Tail(names))
  ELSE <<strip(Head(names))>> \o clean_names_keep_repeats(Tail(names))

\* lines 278-287: trim, drop empties, drop duplicates, keep the order
RECURSIVE clean_loop(_, _, _)
clean_loop(names, seen, acc) ==
  IF names = <<>> THEN acc
  ELSE LET n == strip(Head(names))
       IN IF n = <<>> \/ n \in seen
          THEN clean_loop(Tail(names), seen, acc)
          ELSE clean_loop(Tail(names), seen \cup {n}, Append(acc, n))

clean_names(names) == clean_loop(names, {}, <<>>)

\* try: ... finally: db.close(), as main ends in the three programs: state
\* is the connection, error the exception in flight (None if none).
\* (as main would end without the finally clause)
close_on_success(state, error) == IF error = None THEN "closed" ELSE state

close(state, error) == "closed"

\* ---- the position of a process in main ----
Idle(run_no, movies, error) ==
  [pc |-> "idle", run_no |-> run_no, movies |-> movies, i |-> 0,
   mid |-> None, kind |-> "", names |-> <<>>, k |-> 0, dim_id |-> None,
   error |-> error, db |-> "none"]

\* main is left before the connection exists: print-only, or an exception
\* of crawl_top_n
Leave(pr, movies, error) == Idle(pr.run_no + 1, movies, error)

\* An exception leaves main through "finally: db.close()"; so does the end
\* of the loop.
EndRun(pr, error) ==
  [Idle(pr.run_no + 1, pr.movies, error) EXCEPT !.db = close(pr.db, error)]

\* the next iteration of "for m in movies"
NextRecord(pr) ==
  IF pr.i < Len(pr.movies)
  THEN [pr EXCEPT !.pc = "upsert", !.i = @ + 1, !.mid = None, !.kind = "",
                  !.names = <<>>, !.k = 0, !.dim_id = None]
  ELSE EndRun(pr, None)

\* ensure_dim_and_map(db, mid, m.get("countries", []), ...): it returns at
\* once when clean_names is empty
EnterCountries(pr) ==
  LET nm == clean_names(pr.movies[pr.i].countries)
  IN IF nm = <<>> THEN NextRecord(pr)
     ELSE [pr EXCEPT !.pc = "dim", !.kind = "country", !.names = nm, !.k = 1,
                     !.dim_id = None]

\* ensure_dim_and_map(db, mid, m.get("genres", []), ...)
EnterGenres(pr) ==
  LET nm == clean_names(pr.movies[pr.i].genres)
  IN IF nm = <<>> THEN EnterCountries(pr)
     ELSE [pr EXCEPT !.pc = "dim", !.kind = "genre", !.names = nm, !.k = 1,
                     !.dim_id = None]

\* the store without the freshness timestamps
Identities ==
  [movies |-> {[id |-> r.id, douban_id |-> r.douban_id, rank_no |-> r.rank_no,
                title |-> r.title, year |-> r.year] : r \in douban_movies},
   dims |-> dim_rows,
   maps |-> map_rows]

\* main, from crawl_top_n's return to the first upsert (lines 339-346): the
\* connection, ensure_schema, the first record of the batch
begin_main(p, movies) ==
  /\ proc' = [proc EXCEPT ![p] =
                NextRecord([Idle(@.run_no, movies, None)
                              EXCEPT !.pc = "main", !.db = "open"])]
  /\ snap' = Identities
  /\ prev_batch' = IF proc[p].run_no = 0 THEN None ELSE Some(proc[p].movies)
  /\ UNCHANGED <<douban_movies, movies_auto, dim_rows, dim_auto, map_rows,
                 clock, calls, dim_got, attempts>>

BeginMain(p) ==
  /\ proc[p].pc = "idle"
  /\ proc[p].run_no < MaxRuns
  /\ \E movies \in Batches : begin_main(p, movies)
  /\ UNCHANGED exceptStore

\* upsert_movie, line 253: db.execute_non_query(UPSERT_MOVIE_SQL, ...)
UpsertWrite(p) ==
  /\ proc[p].pc = "upsert"
  /\ LET m == proc[p].movies[proc[p].i]
     IN IF not_null_violation(m)
        THEN \* the statement fails; the exception ends main
             /\ proc' = [proc EXCEPT ![p] = EndRun(@, Some("IntegrityError"))]
             /\ calls' = Append(calls, [p |-> p, m |-> m, ret |-> None])
             /\ UNCHANGED <<douban_movies, movies_auto, clock>>
        ELSE /\ douban_movies' =
                  insert_on_duplicate_key_update(douban_movies, m, movies_auto, clock)
             /\ movies_auto' = movies_auto + 1
             /\ clock' = clock + 1
             /\ proc' = [proc EXCEPT ![p].pc = "select"]
             /\ UNCHANGED calls
  /\ UNCHANGED <<dim_rows, dim_auto, map_rows, dim_got, attempts, snap,
                 prev_batch>>
  /\ UNCHANGED exceptStore

\* upsert_movie, lines 265-266: SELECT id ... WHERE douban_id=%s; row[0]["id"]
UpsertSelect(p) ==
  /\ proc[p].pc = "select"
  /\ LET m == proc[p].movies[proc[p].i]
         row == {r \in douban_movies : r.douban_id = m.douban_id}
     IN IF row = {}
        THEN \* row[0] raises IndexError
             /\ proc' = [proc EXCEPT ![p] = EndRun(@, Some("IndexError"))]
             /\ calls' = Append(calls, [p |-> p, m |-> m, ret |-> None])
        ELSE \E r \in row :
               /\ proc' = [proc EXCEPT ![p] = EnterGenres([@ EXCEPT !.mid = Some(r.id)])]
               /\ calls' = Append(calls, [p |-> p, m |-> m, ret |-> Some(r.id)])
  /\ UNCHANGED <<douban_movies, movies_auto, dim_rows, dim_auto, map_rows,
                 clock, dim_got, attempts, snap, prev_batch>>
  /\ UNCHANGED exceptStore

\* ensure_dim_and_map, lines 296-305: the dimension upsert and cur.lastrowid
DimUpsert(p) ==
  /\ proc[p].pc = "dim"
  /\ LET kd == proc[p].kind
         name == proc[p].names[proc[p].k]
         res == dim_upsert(dim_rows[kd], name, dim_auto[kd])
     IN /\ dim_rows' = [dim_rows EXCEPT ![kd] = res.rows]
        /\ dim_auto' = [dim_auto EXCEPT ![kd] = @ + 1]
        /\ proc' = [proc EXCEPT ![p].pc = "map", ![p].dim_id = Some(res.lastrowid)]
        /\ dim_got' = dim_got \cup {[kind |-> kd, name |-> name, id |-> res.lastrowid]}
  /\ UNCHANGED <<douban_movies, movies_auto, map_rows, clock, calls, attempts,
                 snap, prev_batch>>
  /\ UNCHANGED exceptStore

\* ensure_dim_and_map, lines 308-311: the association insert, then the next
\* name, the next call or the next record
MapInsert(p) ==
  /\ proc[p].pc = "map"
  /\ LET kd == proc[p].kind
         row == [movie_id |-> The(proc[p].mid), dim_id |-> The(proc[p].dim_id)]
         parents == /\ \E r \in douban_movies : r.id = row.movie_id
                    /\ \E r \in dim_rows[kd] : r.id = row.dim_id
         res == insert_ignore(map_rows[kd], row, parents)
     IN /\ map_rows' = [map_rows EXCEPT ![kd] = res.rows]
        /\ attempts' = attempts (+) SetToBag({[kind |-> kd, row |-> row]})
        /\ proc' = [proc EXCEPT ![p] =
                      IF res.error # None THEN EndRun(@, res.error)
                      ELSE IF @.k < Len(@.names)
                      THEN [@ EXCEPT !.pc = "dim", !.k = @ + 1, !.dim_id = None]
                      ELSE IF kd = "genre" THEN EnterCountries(@)
                      ELSE NextRecord(@)]
  /\ UNCHANGED <<douban_movies, movies_auto, dim_rows, dim_auto, clock, calls,
                 dim_got, snap, prev_batch>>
  /\ UNCHANGED exceptStore

\* The store right after ensure_schema on an empty database.
StoreStart ==
  /\ douban_movies = {}
  /\ movies_auto = 1
  /\ dim_rows = [kd \in Kinds |-> {}]
  /\ dim_auto = [kd \in Kinds |-> 1]
  /\ map_rows = [kd \in Kinds |-> EmptyBag]
  /\ clock = 1
  /\ proc = [p \in Procs |-> Idle(0, <<>>, None)]
  /\ calls = <<>>
  /\ dim_got = {}
  /\ attempts = EmptyBag
  /\ snap = Identities
  /\ prev_batch = None

\* ------------------------------------------------------------------------
\* DOUBAN_HOT.py: ensure_dim_and_map on the name lists a caller may pass
\* A name that is None and a name that is "" are both the empty tuple, as
\* "(n or '')" makes them; a list that is None is the empty list, as
\* "names or []" makes it.
\* ------------------------------------------------------------------------
Blank == <<" ">>

\* (genres, countries): lists that normalize to nothing, and lists with
\* padding, repeats, empties and None between the names
OnlyBlanks == << <<Blank, <<>> >>, <<>> >>
Mixed == << <<PaddedG, <<>>, H, G, Blank, H>>, <<C, C>> >>
Reversed == << <<H, G>>, <<Blank>> >>

MapMovies ==
  {store_movie(Some("1"), "A", nl) : nl \in {OnlyBlanks, Mixed, NoNames}}
  \cup {store_movie(Some("2"), "A", nl) : nl \in {OnlyBlanks, Mixed, Reversed}}

MapBatches ==
  {b \in SeqsUpTo(MapMovies, MaxBatch) : b = crawl_result(b, Len(b))}

\* main on such a batch, once
BeginMapRun ==
  /\ proc[1].pc = "idle"
  /\ proc[1].run_no = 0
  /\ \E movies \in MapBatches : begin_main(1, movies)
  /\ UNCHANGED exceptStore

\* ------------------------------------------------------------------------
\* DOUBAN_HOT.py: deletions in the Douban tables
\* CREATE_MAP_MOVIE_GENRE and CREATE_MAP_MOVIE_COUNTRY declare both foreign
\* keys ON DELETE CASCADE: a DELETE of a movie or of a dimension row, by any
\* client, takes the association rows of that parent with it.
\* ------------------------------------------------------------------------

\* (as a DELETE would do it if the foreign key were not declared)
no_cascade(rows, column, id) == rows

\* the association rows that remain after the parent id of column is gone
on_delete_cascade(rows, column, id) ==
  LET keep == {row \in DOMAIN rows :
                 IF column = "movie_id" THEN row.movie_id # id
                 ELSE row.dim_id # id}
  IN [row \in keep |-> rows[row]]

Referencing(rows, column, id) ==
  {row \in DOMAIN rows :
     IF column = "movie_id" THEN row.movie_id = id ELSE row.dim_id = id}

\* DELETE FROM douban_movies WHERE id = ...
DeleteMovie ==
  /\ \E r \in douban_movies :
       /\ douban_movies' = douban_movies \ {r}
       /\ map_rows' = [kd \in Kinds |->
                         on_delete_cascade(map_rows[kd], "movie_id", r.id)]
       /\ cascaded' = cascaded \cup
            UNION {{[kind |-> kd, row |-> row] :
                      row \in Referencing(map_rows[kd], "movie_id", r.id)} :
                   kd \in Kinds}
  /\ UNCHANGED <<movies_auto, dim_rows, dim_auto, clock, proc, calls, dim_got,
                 attempts, snap, prev_batch>>
  /\ UNCHANGED <<crawlVars, usersVars, baiduVars, saveVars, pipeVars, lifeVars, txVars, cmdVars>>

\* DELETE FROM douban_genre / douban_country WHERE id = ...
DeleteDim ==
  /\ \E kd \in Kinds : \E r \in dim_rows[kd] :
       /\ dim_rows' = [dim_rows EXCEPT ![kd] = @ \ {r}]
       /\ map_rows' = [map_rows EXCEPT
                         ![kd] = on_delete_cascade(@, "dim_id", r.id)]
       /\ cascaded' = cascaded \cup
            {[kind |-> kd, row |-> row] :
               row \in Referencing(map_rows[kd], "dim_id", r.id)}
  /\ UNCHANGED <<douban_movies, movies_auto, dim_auto, clock, proc, calls,
                 dim_got, attempts, snap, prev_batch>>
  /\ UNCHANGED <<crawlVars, usersVars, baiduVars, saveVars, pipeVars, lifeVars, txVars, cmdVars>>

DelStart == cascaded = {}

\* ------------------------------------------------------------------------
\* DOUBAN_HOT.py: main as a whole, crawl_top_n and then the store
\* ------------------------------------------------------------------------
Tables ==
  [movies |-> douban_movies, dims |-> dim_rows, maps |-> map_rows]

\* A process starts main: line 330 enters crawl_top_n.
RunMain ==
  /\ cpc = "off"
  /\ proc[1].pc = "idle"
  /\ proc[1].run_no < MaxRuns
  /\ top' \in Tops
  /\ cpc' = "fetch"
  /\ page_i' = 0
  /\ all_items' = <<>>
  /\ uniq' = <<>>
  /\ proc' = [proc EXCEPT ![1].db = "none", ![1].error = None]
  /\ at_start' = Tables
  /\ UNCHANGED <<douban_movies, movies_auto, dim_rows, dim_auto, map_rows,
                 clock, calls, dim_got, attempts, snap, prev_batch>>
  /\ UNCHANGED <<usersVars, baiduVars, saveVars, lifeVars, delVars, txVars, cmdVars>>

\* lines 330-347: crawl_top_n has returned; main prints the preview and
\* either returns (--print-only) or connects and starts on the records.
MainCrawled ==
  /\ cpc = "returned"
  /\ proc[1].pc = "idle"
  /\ \E print_only \in BOOLEAN :
       IF print_only
       THEN /\ proc' = [proc EXCEPT ![1] = Leave(@, uniq, None)]
            /\ UNCHANGED <<douban_movies, movies_auto, dim_rows, dim_auto,
                           map_rows, clock, calls, dim_got, attempts, snap,
                           prev_batch>>
       ELSE begin_main(1, uniq)
  /\ top' = 0
  /\ cpc' = "off"
  /\ page_i' = 0
  /\ all_items' = <<>>
  /\ uniq' = <<>>
  /\ UNCHANGED <<usersVars, baiduVars, saveVars, pipeVars, lifeVars, delVars, txVars, cmdVars>>

\* (as a main that catches the exception and stores the pages it has)
MainStoresPartial ==
  /\ cpc = "raised"
  /\ proc[1].pc = "idle"
  /\ begin_main(1, crawl_result(all_items, top))
  /\ top' = 0
  /\ cpc' = "off"
  /\ page_i' = 0
  /\ all_items' = <<>>
  /\ uniq' = <<>>
  /\ UNCHANGED <<usersVars, baiduVars, saveVars, pipeVars, lifeVars, delVars, txVars, cmdVars>>

\* line 330: the exception of fetch_list_page leaves crawl_top_n and main;
\* there is no handler and no connection yet.
MainRaised ==
  /\ cpc = "raised"
  /\ proc[1].pc = "idle"
  /\ proc[1].error = None
  /\ proc' = [proc EXCEPT ![1] = Leave(@, <<>>, Some("RequestException"))]
  /\ UNCHANGED <<douban_movies, movies_auto, dim_rows, dim_auto, map_rows,
                 clock, calls, dim_got, attempts, snap, prev_batch>>
  /\ UNCHANGED <<top, cpc, page_i, all_items, uniq>>
  /\ UNCHANGED <<usersVars, baiduVars, saveVars, pipeVars, lifeVars, delVars, txVars, cmdVars>>

\* A process that ended with an exception is gone; the next one may start.
MainGone ==
  /\ cpc = "raised"
  /\ proc[1].pc = "idle"
  /\ proc[1].error # None
  /\ top' = 0
  /\ cpc' = "off"
  /\ page_i' = 0
  /\ all_items' = <<>>
  /\ uniq' = <<>>
  /\ UNCHANGED <<storeVars, usersVars, baiduVars, saveVars, pipeVars, lifeVars, delVars, txVars, cmdVars>>

PipeStart == at_start = [movies |-> {}, dims |-> [kd \in Kinds |-> {}],
                         maps |-> [kd \in Kinds |-> EmptyBag]]

\* ------------------------------------------------------------------------
\* BAIDU_HOT.py: parse_from_initial_state, parse_from_html, get_top_n
\* A JSON value is a tagged record; a dict keeps its pairs in order.
\* ------------------------------------------------------------------------
JNull == [t |-> "null"]
JNum(n) == [t |-> "num", n |-> n]
JStr(s) == [t |-> "str", s |-> s]
JList(l) == [t |-> "list", l |-> l]
JDict(d) == [t |-> "dict", d |-> d]

\* bool(v) of a decoded JSON value
Truthy(v) ==
  CASE v.t = "null" -> FALSE
    [] v.t = "num" -> v.n # 0
    [] v.t = "str" -> v.s # <<>>
    [] v.t = "list" -> v.l # <<>>
    [] v.t = "dict" -> v.d # <<>>

\* "k in obj" and obj.get(k) of a dict
HasKey(obj, k) == \E j \in 1..Len(obj.d) : obj.d[j][1] = k

Get(obj, k) ==
  IF HasKey(obj, k)
  THEN obj.d[CHOOSE j \in 1..Len(obj.d) : obj.d[j][1] = k][2]
  ELSE JNull

\* a or b or c or d: the first truthy operand, else the last one
FirstTruthy(vs) ==
  IF \E j \in 1..Len(vs) : Truthy(vs[j])
  THEN vs[CHOOSE j \in 1..Len(vs) :
            Truthy(vs[j]) /\ \A h \in 1..(j - 1) : ~Truthy(vs[h])]
  ELSE vs[Len(vs)]

\* dig, lines 60-73: the first "items" list in depth-first order
RECURSIVE dig(_)
RECURSIVE dig_first(_)
dig_first(vs) ==
  IF vs = <<>> THEN None
  ELSE LET r == dig(Head(vs))
       IN IF r # None THEN r ELSE dig_first(Tail(vs))

dig(obj) ==
  IF obj.t = "dict"
  THEN IF HasKey(obj, "items") /\ Get(obj, "items").t = "list"
       THEN Some(Get(obj, "items").l)
       ELSE dig_first([j \in 1..Len(obj.d) |-> obj.d[j][2]])
  ELSE IF obj.t = "list" THEN dig_first(obj.l)
  ELSE None

\* What one entry of raw does to the loop of lines 80-85: it raises, it is
\* skipped, or it appends an item.
entry_title(it) ==
  FirstTruthy(<<Get(it, "word"), Get(it, "query"), Get(it, "title"),
                Get(it, "content"), JStr(<<>>)>>)

entry_url(it) ==
  FirstTruthy(<<Get(it, "url"), Get(it, "appUrl"), Get(it, "redirectUrl")>>)

RECURSIVE entries_loop(_, _, _)
entries_loop(raw, i, acc) ==
  IF raw = <<>> THEN [error |-> None, value |-> Some(acc)]
  ELSE LET it == Head(raw)
       IN IF it.t # "dict"
          THEN \* it.get: a str, a number, a list or None has no get
               [error |-> Some("AttributeError"), value |-> None]
          ELSE IF entry_title(it).t # "str"
          THEN \* .strip(): a truthy number, list or dict has no strip
               [error |-> Some("AttributeError"), value |-> None]
          ELSE IF strip(entry_title(it).s) = <<>>
          THEN entries_loop(Tail(raw), i + 1, acc)
          ELSE entries_loop(Tail(raw), i + 1,
                 Append(acc, [rank |-> i, title |-> strip(entry_title(it).s),
                              url |-> entry_url(it)]))

\* parse_from_initial_state: state is "nomatch" when the pattern does not
\* match, "badjson" when json.loads fails, else the decoded object.
parse_from_initial_state(doc) ==
  IF doc.state.t \in {"nomatch", "badjson"}
  THEN [error |-> None, value |-> None]
  ELSE LET raw == dig(doc.state)
       IN IF raw = None \/ The(raw) = <<>>
          THEN [error |-> None, value |-> None]
          ELSE entries_loop(The(raw), 1, <<>>)

\* urljoin(BAIDU_REALTIME_URL, href): a path gets the scheme and the host
urljoin(href) ==
  IF Head(href) = "/" THEN <<"https://top.baidu.com">> \o href ELSE href

\* the loop of parse_from_html over the selected cards
RECURSIVE cards_loop(_, _, _)
cards_loop(cards, rank, out) ==
  IF cards = <<>> THEN out
  ELSE LET card == Head(cards)
           title_el == IF card.ellipsis # None THEN card.ellipsis
                       ELSE IF card.a # None THEN Some(The(card.a).text)
                       ELSE None
           title == IF title_el # None THEN strip(The(title_el)) ELSE <<>>
           link_el == IF card.a # None /\ The(card.a).href # None
                      THEN Some(The(The(card.a).href)) ELSE None
           url == IF link_el # None THEN JStr(urljoin(The(link_el))) ELSE JNull
       IN IF title = <<>>
          THEN cards_loop(Tail(cards), rank, out)
          ELSE cards_loop(Tail(cards), rank + 1,
                 Append(out, [rank |-> rank, title |-> title, url |-> url]))

parse_from_html(doc) == cards_loop(doc.cards, 1, <<>>)

\* ---- the documents ----
Word(s) == <<"word", JStr(s)>>

Entries ==
  { JDict(<<Word(<<"t1">>), <<"url", JStr(<<"u1">>)>> >>),
    JDict(<<Word(<<>>), <<"query", JStr(<<" ", "t2">>)>> >>),
    JDict(<<Word(<<" ">>), <<"query", JStr(<<"t3">>)>> >>),
    JDict(<< <<"url", JStr(<<"u4">>)>> >>),
    JDict(<<Word(<<"t1">>), <<"url", JStr(<<>>)>>,
            <<"appUrl", JStr(<<"u7">>)>> >>),
    JDict(<< <<"word", JNum(5)>> >>),
    JStr(<<"t6">>) }

States ==
  {[t |-> "nomatch"], [t |-> "badjson"], JDict(<<>>)}
  \cup {JDict(<< <<"items", JList(es)>> >>) : es \in SeqsUpTo(Entries, MaxEntries)}
  \cup {JDict(<< <<"items", JStr(<<"x">>)>>,
                 <<"data", JDict(<< <<"cards", JList(<<JNum(1),
                     JDict(<< <<"items", JList(<<e>>)>> >>)>>)>> >>)>> >>) :
          e \in Entries}

BaiduCards ==
  { [ellipsis |-> Some(<<" ", "c1">>),
     a |-> Some([text |-> <<"more">>, href |-> Some(<<"/", "s1">>)])],
    [ellipsis |-> None,
     a |-> Some([text |-> <<"c2">>, href |-> None])],
    [ellipsis |-> Some(<<" ">>),
     a |-> Some([text |-> <<"c3">>, href |-> Some(<<"http://x/s3">>)])],
    [ellipsis |-> None, a |-> None] }

Documents ==
  {[state |-> s, cards |-> cs] :
     s \in States, cs \in SeqsUpTo(BaiduCards, MaxCards)}

\* --top
Wants == 0..3

BaiduStart ==
  /\ html \in Documents
  /\ want \in Wants
  /\ bpc = "fetch"
  /\ top_items = <<>>
  /\ structured = [error |-> None, value |-> None]

BaiduOff ==
  /\ html = [state |-> [t |-> "nomatch"], cards |-> <<>>]
  /\ want = 0
  /\ bpc = "off"
  /\ top_items = <<>>
  /\ structured = [error |-> None, value |-> None]

\* get_top_n, line 105: fetch_html returns the document or raises
FetchHtml ==
  /\ bpc = "fetch"
  /\ bpc' = "structured"
  /\ UNCHANGED <<html, want, top_items, structured>>
  /\ UNCHANGED exceptBaidu

FetchHtmlFails ==
  /\ bpc = "fetch"
  /\ bpc' = "raised"
  /\ UNCHANGED <<html, want, top_items, structured>>
  /\ UNCHANGED exceptBaidu

\* line 106: items = parse_from_initial_state(html) or []; line 107 decides
\* whether the fallback runs
ParseStructured ==
  /\ bpc = "structured"
  /\ LET res == parse_from_initial_state(html)
         got == IF res.value = None THEN <<>> ELSE The(res.value)
     IN /\ structured' = res
        /\ IF res.error # None
           THEN bpc' = "raised" /\ UNCHANGED top_items
           ELSE /\ top_items' = got
                /\ bpc' = IF Len(got) < want THEN "fallback" ELSE "return"
  /\ UNCHANGED <<html, want>>
  /\ UNCHANGED exceptBaidu

\* line 108: items = parse_from_html(html) or []
ParseFallback ==
  /\ bpc = "fallback"
  /\ top_items' = parse_from_html(html)
  /\ bpc' = "return"
  /\ UNCHANGED <<html, want, structured>>
  /\ UNCHANGED exceptBaidu

\* line 109: return items[:n]
ReturnTop ==
  /\ bpc = "return"
  /\ top_items' = truncate(top_items, want)
  /\ bpc' = "returned"
  /\ UNCHANGED <<html, want, structured>>
  /\ UNCHANGED exceptBaidu

\* ------------------------------------------------------------------------
\* BAIDU_HOT.py: main, ensure_table, save_items
\* ------------------------------------------------------------------------

\* get_top_n(n) on a fetched document, as one function
get_top_n(doc, n) ==
  LET res == parse_from_initial_state(doc)
      first == IF res.value = None THEN <<>> ELSE The(res.value)
  IN IF res.error # None THEN [error |-> res.error, value |-> <<>>]
     ELSE [error |-> None,
           value |-> truncate(IF Len(first) < n THEN parse_from_html(doc)
                              ELSE first, n)]

\* What get_top_n can give main: a list, or an exception.
TopResults == {get_top_n(doc, n) : doc \in Documents, n \in Wants}

\* DATE(grabbed_at)
Date(ts) == ts.day

baidu_row(id, prm) ==
  [id |-> id, rank_no |-> prm.rank, title |-> prm.title, url |-> prm.url,
   grabbed_at |-> prm.now, grabbed_date |-> Date(prm.now)]

\* (as the statement would do on a table without uk_title_day)
baidu_insert_blind(rows, prm, new_id) == rows \cup {baidu_row(new_id, prm)}

\* (as an upsert whose UPDATE list names every column)
baidu_upsert_all(rows, prm, new_id) ==
  IF \E r \in rows : r.title = prm.title /\ r.grabbed_date = Date(prm.now)
  THEN {IF r.title = prm.title /\ r.grabbed_date = Date(prm.now)
        THEN baidu_row(r.id, prm) ELSE r : r \in rows}
  ELSE rows \cup {baidu_row(new_id, prm)}

\* INSERT INTO baidu_hotsearch (rank_no, title, url, grabbed_at) VALUES (...)
\* ON DUPLICATE KEY UPDATE url = VALUES(url), grabbed_at = VALUES(grabbed_at)
\* for one row of values; grabbed_date is generated from grabbed_at.
baidu_upsert(rows, prm, new_id) ==
  IF \E r \in rows : r.title = prm.title /\ r.grabbed_date = Date(prm.now)
  THEN {IF r.title = prm.title /\ r.grabbed_date = Date(prm.now)
        THEN [r EXCEPT !.url = prm.url, !.grabbed_at = prm.now,
                       !.grabbed_date = Date(prm.now)]
        ELSE r : r \in rows}
  ELSE rows \cup {baidu_row(new_id, prm)}

\* db.execute_many(sql, params): the rows of values one after another
RECURSIVE execute_many(_, _, _)
execute_many(rows, auto, params) ==
  IF params = <<>> THEN [rows |-> rows, auto |-> auto]
  ELSE execute_many(baidu_upsert(rows, Head(params), auto), auto + 1,
                    Tail(params))

\* params = [(it["rank"], it["title"], it.get("url"), now)
\*           for it in items if it.get("title")]
RECURSIVE save_params(_, _)
save_params(its, ts) ==
  IF its = <<>> THEN <<>>
  ELSE IF Head(its).title = <<>> THEN save_params(Tail(its), ts)
  ELSE <<[rank |-> Head(its).rank, title |-> Head(its).title,
          url |-> Head(its).url, now |-> ts]>> \o save_params(Tail(its), ts)

\* save_items on a table and a counter
save_items(rows, auto, its, ts) ==
  IF save_params(its, ts) = <<>> THEN [rows |-> rows, auto |-> auto]
  ELSE execute_many(rows, auto, save_params(its, ts))

\* The clock readings that may follow ts: later the same day, or the
\* beginning of the next day.
Later(ts) ==
  {[day |-> ts.day, t |-> ts.t + 1]}
  \cup (IF ts.day < MaxDay THEN {[day |-> ts.day + 1, t |-> 0]} ELSE {})

\* main, lines 146-165: get_top_n, the two early returns, the connection
BaiduMain ==
  /\ spc \in {"idle", "exited"}
  /\ saves < MaxSaves
  /\ saves' = saves + 1
  /\ \E res \in TopResults, print_only \in BOOLEAN :
       IF res.error # None
       THEN \* get_top_n raises: main is left before the connection
            /\ spc' = "exited"
            /\ berror' = res.error
            /\ bexit' = res.error
            /\ bdb' = "none"
            /\ saving' = <<>>
       ELSE IF res.value = <<>> \/ print_only
       THEN /\ spc' = "exited"
            /\ berror' = None
            /\ bexit' = None
            /\ bdb' = "none"
            /\ saving' = res.value
       ELSE /\ spc' = "try"
            /\ berror' = None
            /\ bexit' = None
            /\ bdb' = "open"
            /\ saving' = res.value
  /\ UNCHANGED <<baidu_hotsearch, baidu_auto, now, pre>>
  /\ UNCHANGED exceptSave

\* line 167: ensure_table(db): CREATE TABLE IF NOT EXISTS
EnsureTable ==
  /\ spc = "try"
  /\ spc' = "save"
  /\ UNCHANGED <<baidu_hotsearch, baidu_auto, now, bdb, berror, bexit,
                 saving, saves, pre>>
  /\ UNCHANGED exceptSave

\* a statement fails (the server is gone, a value is too long): the
\* exception leaves the try block
StatementFails ==
  /\ spc \in {"try", "save"}
  /\ spc' = "finally"
  /\ berror' = Some("OperationalError")
  /\ UNCHANGED <<baidu_hotsearch, baidu_auto, now, bdb, bexit, saving, saves,
                 pre>>
  /\ UNCHANGED exceptSave

\* line 168: n = save_items(db, items), at a clock reading later than the
\* one before
SaveItems ==
  /\ spc = "save"
  /\ \E ts \in Later(now) :
       LET res == save_items(baidu_hotsearch, baidu_auto, saving, ts)
       IN /\ now' = ts
          /\ baidu_hotsearch' = res.rows
          /\ baidu_auto' = res.auto
  /\ pre' = baidu_hotsearch
  /\ spc' = "finally"
  /\ UNCHANGED <<bdb, berror, bexit, saving, saves>>
  /\ UNCHANGED exceptSave

\* lines 170-171: the finally clause, then main returns or the exception
\* goes on
BaiduFinally ==
  /\ spc = "finally"
  /\ bdb' = close(bdb, berror)
  /\ bexit' = berror
  /\ spc' = "exited"
  /\ UNCHANGED <<baidu_hotsearch, baidu_auto, now, berror, saving, saves, pre>>
  /\ UNCHANGED exceptSave

\* The store before the first run: no table yet.
SaveStart ==
  /\ baidu_hotsearch = {}
  /\ baidu_auto = 1
  /\ now = [day |-> 1, t |-> 0]
  /\ spc = "idle"
  /\ bdb = "none"
  /\ berror = None
  /\ bexit = None
  /\ saving = <<>>
  /\ saves = 0
  /\ pre = {}

SaveOff ==
  /\ baidu_hotsearch = {}
  /\ baidu_auto = 1
  /\ now = [day |-> 1, t |-> 0]
  /\ spc = "off"
  /\ bdb = "none"
  /\ berror = None
  /\ bexit = None
  /\ saving = <<>>
  /\ saves = 0
  /\ pre = {}

\* ------------------------------------------------------------------------
\* DOUBAN_HOT.py: parse_list
\* A page is the sequence of its div.item cards.  A card has the text of
\* its em (None without an em), its "div.hd a" (None without one; href is
\* None when the a has no href attribute), the texts of its span.title
\* elements, the text of its span.other, and the second line of its
\* "div.bd p" as segments between the slashes, each a sequence of words.
\* ------------------------------------------------------------------------
Digits == {"1", "2"}

DigitValue(d) == IF d = "1" THEN 1 ELSE 2

YearWords == {"1994"}

TypeWords == {"Crime"}

\* em.get_text(strip=True).isdigit()
isdigit(str) == Len(str) = 1 /\ str[1] \in Digits

list_rank_no(em) ==
  IF em # None /\ isdigit(strip(The(em)))
  THEN Some(DigitValue(strip(The(em))[1])) ELSE None

\* re.search(r"/subject/(\d+)/", url)
list_douban_id(url) ==
  IF \E j \in 1..(Len(url) - 2) :
       url[j] = "/subject/" /\ url[j + 1] \in Digits /\ url[j + 2] = "/"
  THEN LET j == CHOOSE j \in 1..(Len(url) - 2) :
                  /\ url[j] = "/subject/" /\ url[j + 1] \in Digits
                  /\ url[j + 2] = "/"
                  /\ \A h \in 1..(j - 1) :
                       ~(url[h] = "/subject/" /\ url[h + 1] \in Digits
                         /\ url[h + 2] = "/")
       IN Some(url[j + 1])
  ELSE None

\* title_spans[0].get_text(strip=True) if title_spans
\*   else a.get_text(strip=True)
list_title(card) ==
  IF card.title_spans # <<>> THEN strip(card.title_spans[1])
  ELSE strip(The(card.a).text)

\* str.strip(" /")
RECURSIVE strip_slash(_)
strip_slash(str) ==
  IF str # <<>> /\ Head(str) \in {" ", "/"} THEN strip_slash(Tail(str))
  ELSE IF str # <<>> /\ str[Len(str)] \in {" ", "/"}
  THEN strip_slash(SubSeq(str, 1, Len(str) - 1))
  ELSE str

list_original_title(card) ==
  IF Len(card.title_spans) > 1
  THEN IF strip(card.title_spans[2]) # <<>>
       THEN Some(strip_slash(strip(card.title_spans[2]))) ELSE None
  ELSE IF card.other # None THEN Some(strip_slash(strip(The(card.other))))
  ELSE None

RECURSIVE Flatten(_)
Flatten(ss) == IF ss = <<>> THEN <<>> ELSE Head(ss) \o Flatten(Tail(ss))

RECURSIVE Select(_, _)
Select(s, keep) ==
  IF s = <<>> THEN <<>>
  ELSE IF Head(s) \in keep THEN <<Head(s)>> \o Select(Tail(s), keep)
  ELSE Select(Tail(s), keep)

\* segs = [s.strip() for s in parts[1].split("/") if s.strip()]
list_segs(line2) ==
  IF line2 = None THEN <<>>
  ELSE LET RECURSIVE NonEmpty(_)
           NonEmpty(ss) ==
             IF ss = <<>> THEN <<>>
             ELSE IF Head(ss) = <<>> THEN NonEmpty(Tail(ss))
             ELSE <<Head(ss)>> \o NonEmpty(Tail(ss))
       IN NonEmpty(The(line2))

\* y = re.search(r"(\d{4})", " ".join(segs))
list_year(segs) ==
  LET years == Select(Flatten(segs), YearWords)
  IN IF years # <<>> THEN Some(1994) ELSE None

\* cands: a segment that is a year alone is skipped, the others are split
\* at their spaces
list_cands(segs) ==
  LET RECURSIVE Cands(_)
      Cands(ss) ==
        IF ss = <<>> THEN <<>>
        ELSE IF Len(Head(ss)) = 1 /\ Head(ss)[1] \in YearWords
        THEN Cands(Tail(ss))
        ELSE Head(ss) \o Cands(Tail(ss))
  IN Cands(segs)

AllWords == {"1994", "Crime", "US"}

list_genres(segs) == Select(list_cands(segs), TypeWords)

list_countries(segs) == Select(list_cands(segs), AllWords \ TypeWords)

\* the loop over soup.select("div.item"); rating, votes and director are
\* left out: they are computed after the title, they neither skip the card
\* nor raise
RECURSIVE list_loop(_, _)
list_loop(cards, items) ==
  IF cards = <<>> THEN [error |-> None, value |-> items]
  ELSE LET div == Head(cards)
       IN IF div.a = None
          THEN list_loop(Tail(cards), items)
          ELSE IF The(div.a).href = None
          THEN \* a["href"] on an a without the attribute
               [error |-> Some("KeyError"), value |-> <<>>]
          ELSE LET url == The(The(div.a).href)
                   segs == list_segs(div.line2)
               IN list_loop(Tail(cards),
                    Append(items,
                      [rank_no |-> list_rank_no(div.em),
                       douban_id |-> list_douban_id(url),
                       title |-> list_title(div),
                       original_title |-> list_original_title(div),
                       year |-> list_year(segs),
                       countries |-> list_countries(segs),
                       genres |-> list_genres(segs),
                       url |-> url]))

parse_list(cards) == list_loop(cards, <<>>)

\* ---- the pages ----
ListCards ==
  { \* a full card
    [em |-> Some(<<"1">>),
     a |-> Some([href |-> Some(<<"https://movie.douban.com", "/subject/",
                                 "1", "/">>), text |-> <<"A", " ", "B">>]),
     title_spans |-> << <<"A">>, <<" ", "/", " ", "B">> >>, other |-> None,
     line2 |-> Some(<< <<"1994">>, <<"US">>, <<"Crime">> >>)],
    \* no link: skipped
    [em |-> Some(<<"2">>), a |-> None, title_spans |-> << <<"A">> >>,
     other |-> None, line2 |-> None],
    \* an empty span.title
    [em |-> Some(<<"2">>),
     a |-> Some([href |-> Some(<<"/subject/", "2", "/">>), text |-> <<>>]),
     title_spans |-> << <<>> >>, other |-> None,
     line2 |-> Some(<< <<"1994", "US">> >>)],
    \* no span.title and a link without text (a poster image only)
    [em |-> None,
     a |-> Some([href |-> Some(<<"/photo/", "1", "/">>), text |-> <<" ">>]),
     title_spans |-> <<>>, other |-> Some(<<"/", "B">>), line2 |-> None],
    \* no span.title: the text of the link; an em that is not a number
    [em |-> Some(<<"x">>),
     a |-> Some([href |-> Some(<<"/subject/", "2", "/">>), text |-> <<"B">>]),
     title_spans |-> <<>>, other |-> None,
     line2 |-> Some(<< <<>>, <<"US">> >>)],
    \* a link without href
    [em |-> Some(<<"1">>), a |-> Some([href |-> None, text |-> <<"A">>]),
     title_spans |-> << <<"A">> >>, other |-> None, line2 |-> None] }

ListPages == SeqsUpTo(ListCards, MaxCards)

\* One iteration of the page loop of crawl_top_n: fetch_list_page returns
\* a page, parse_list parses it, all_items is extended; an exception of
\* parse_list leaves crawl_top_n.
FetchAndParse ==
  /\ cpc = "fetch"
  /\ page_i < pages(top)
  /\ \E cards \in ListPages :
       IF parse_list(cards).error # None
       THEN /\ cpc' = "raised"
            /\ UNCHANGED <<page_i, all_items>>
       ELSE /\ all_items' = all_items \o parse_list(cards).value
            /\ page_i' = page_i + 1
            /\ UNCHANGED cpc
  /\ UNCHANGED <<top, uniq>>
  /\ UNCHANGED exceptCrawl

\* ------------------------------------------------------------------------
\* main.py: cmd_tx_demo
\* test_users holds the committed rows.  While autocommit is off, the
\* statements of the connection work on the transaction's own copy (work),
\* which commit makes the table and rollback drops.
\* ------------------------------------------------------------------------
TxEmail == <<"tx@example.com">>

\* INSERT INTO test_users (name, email) VALUES (%s, %s) on a row set: a
\* taken email fails the statement when the UNIQUE index exists; the
\* reserved AUTO_INCREMENT value is not given back either way.
insert_user(rows, auto, unique, name, email) ==
  IF unique /\ \E r \in rows : r.email = email
  THEN [rows |-> rows, auto |-> auto + 1, error |-> Some("IntegrityError")]
  ELSE [rows |-> rows \cup {[id |-> auto, name |-> name, email |-> email]},
        auto |-> auto + 1, error |-> None]

\* the rows the connection sees
View(committed, tx) == IF tx # None THEN The(tx) ELSE committed

\* db.execute_non_query(sql, params): the statement runs on the connection;
\* in autocommit mode its effect is committed with the statement, otherwise
\* it stays in the open transaction.
execute_non_query(committed, tx, auto_commit, rows) ==
  IF auto_commit THEN [committed |-> rows, tx |-> None]
  ELSE [committed |-> committed, tx |-> Some(rows)]

\* connection.commit()
commit(committed, tx) == [committed |-> View(committed, tx), tx |-> None]

\* (as a handler that committed instead would do it)
rollback_commits(committed, tx) == commit(committed, tx)

\* connection.rollback()
rollback(committed, tx) == [committed |-> committed, tx |-> None]

\* connection.autocommit(True): switching autocommit on commits what is
\* pending
autocommit_on(committed, tx) == commit(committed, tx)

TxRest ==
  /\ UNCHANGED <<email_unique, dpc, ids, chunk_i, total, removed, before,
                 statements, second, prev_total, inserted>>
  /\ UNCHANGED <<crawlVars, storeVars, baiduVars, saveVars, pipeVars,
                 lifeVars, delVars, cmdVars>>

\* lines 113-117: autocommit(False)
TxBegin ==
  /\ tpc \in {"idle", "returned"}
  /\ users_auto < MaxUserId
  /\ tpc' = "begun"
  /\ autocommit' = FALSE
  /\ tx_before' = test_users
  /\ tx_error' = None
  /\ UNCHANGED <<test_users, users_auto, outcome, work>>
  /\ TxRest

\* one of the two INSERT statements, with what follows it
TxInsert(name, ok_pc) ==
  LET res == insert_user(View(test_users, work), users_auto, email_unique,
                         name, TxEmail)
      db == execute_non_query(test_users, work, autocommit, res.rows)
  IN /\ users_auto' = res.auto
     /\ test_users' = db.committed
     /\ work' = db.tx
     /\ tx_error' = res.error
     /\ tpc' = IF res.error # None THEN "except" ELSE ok_pc
     /\ UNCHANGED <<outcome, autocommit, tx_before>>
     /\ TxRest

\* lines 121-124
TxFirstInsert == tpc = "begun" /\ TxInsert("TxUser", "first")

\* lines 126-129
TxSecondInsert == tpc = "first" /\ TxInsert("TxUserDup", "commit")

\* line 131
TxCommit ==
  /\ tpc = "commit"
  /\ test_users' = commit(test_users, work).committed
  /\ work' = commit(test_users, work).tx
  /\ tpc' = "finally"
  /\ UNCHANGED <<users_auto, outcome, autocommit, tx_before, tx_error>>
  /\ TxRest

\* lines 132-134: except Exception: rollback(), print
TxExcept ==
  /\ tpc = "except"
  /\ test_users' = rollback(test_users, work).committed
  /\ work' = rollback(test_users, work).tx
  /\ tpc' = "finally"
  /\ UNCHANGED <<users_auto, outcome, autocommit, tx_before, tx_error>>
  /\ TxRest

\* lines 135-136: finally: autocommit(True); cmd_tx_demo returns
TxFinally ==
  /\ tpc = "finally"
  /\ test_users' = autocommit_on(test_users, work).committed
  /\ work' = autocommit_on(test_users, work).tx
  /\ autocommit' = TRUE
  /\ outcome' = "ok"
  /\ tpc' = "returned"
  /\ UNCHANGED <<users_auto, tx_before, tx_error>>
  /\ TxRest

\* cmd_insert, cmd_delete between two runs of cmd_tx_demo; the address may
\* be the one cmd_tx_demo uses
TxCmdInsert ==
  /\ tpc \in {"idle", "returned"}
  /\ \E name \in UserNames, email \in {TxEmail, <<"a@x">>} :
       cmd_insert(name, email)
  /\ tpc' = "idle"
  /\ UNCHANGED <<autocommit, work, tx_before, tx_error>>
  /\ TxRest

TxCmdDelete ==
  /\ tpc \in {"idle", "returned"}
  /\ \E r \in test_users : cmd_delete(r.id)
  /\ tpc' = "idle"
  /\ UNCHANGED <<autocommit, work, tx_before, tx_error>>
  /\ TxRest

TxStart ==
  /\ tpc = "idle"
  /\ autocommit = TRUE
  /\ work = None
  /\ tx_before = {}
  /\ tx_error = None

TxOff ==
  /\ tpc = "off"
  /\ autocommit = TRUE
  /\ work = None
  /\ tx_before = {}
  /\ tx_error = None

\* ------------------------------------------------------------------------
\* main.py: cmd_seed, cmd_insert and cmd_delete, one process after another,
\* with a record of the latest command
\* ------------------------------------------------------------------------
NoCommand == [cmd |-> "none", email |-> <<>>, found |-> {}]

SeqRest ==
  /\ rpc # "update"
  /\ UNCHANGED <<rpc, count, pending>>
  /\ UNCHANGED <<email_unique, dpc, ids, chunk_i, total, removed, before,
                 statements, second, prev_total, inserted>>
  /\ UNCHANGED <<crawlVars, storeVars, baiduVars, saveVars, pipeVars,
                 lifeVars, delVars, txVars>>

SeqInsert ==
  /\ \E name \in UserNames, email \in InsertEmails :
       /\ cmd_insert(name, email)
       /\ last' = [cmd |-> "insert", email |-> email, found |-> test_users]
  /\ SeqRest

SeqSeed ==
  /\ cmd_seed
  /\ last' = [cmd |-> "seed", email |-> <<>>, found |-> test_users]
  /\ SeqRest

SeqDelete ==
  /\ \E r \in test_users :
       /\ cmd_delete(r.id)
       /\ last' = [cmd |-> "delete", email |-> r.email, found |-> test_users]
  /\ SeqRest

\* ---- cmd_reindex ----
ReindexRest ==
  /\ UNCHANGED <<email_unique, dpc, ids, chunk_i, total, removed, before,
                 statements, second, prev_total, inserted>>
  /\ UNCHANGED <<crawlVars, storeVars, baiduVars, saveVars, pipeVars,
                 lifeVars, delVars, txVars>>

\* (as ORDER BY id DESC would have it: the row of largest id first)
reindex_next_desc(rows, todo) ==
  CHOOSE r \in rows : r.id \in todo /\ \A i \in todo : i <= r.id

\* ORDER BY id: the row the UPDATE visits next is the one of smallest id
\* among those it has still to visit
reindex_next(rows, todo) ==
  CHOOSE r \in rows : r.id \in todo /\ \A i \in todo : r.id <= i

\* ALTER TABLE test_users AUTO_INCREMENT = 1: InnoDB sets the counter to
\* the requested value, or to the largest id plus one when that is more
alter_auto_increment(rows, value) ==
  IF \E r \in rows : r.id >= value
  THEN (CHOOSE r \in rows : \A q \in rows : q.id <= r.id).id + 1
  ELSE value

\* line 148: SET @count = 0; then the UPDATE of line 149 begins, it will
\* visit the rows the table has
ReindexSet ==
  /\ rpc \in {"idle", "done"}
  /\ rpc' = "update"
  /\ count' = 0
  /\ pending' = {r.id : r \in test_users}
  /\ last' = [cmd |-> "reindex", email |-> <<>>, found |-> test_users]
  /\ UNCHANGED <<test_users, users_auto, outcome>>
  /\ ReindexRest

\* line 149, one row: SET id = (@count := @count + 1).  An id that another
\* row holds fails the statement on the primary key: the statement's
\* updates are undone and the exception leaves cmd_reindex.
ReindexRow ==
  /\ rpc = "update"
  /\ pending # {}
  /\ LET r == reindex_next(test_users, pending)
         id == count + 1
     IN IF \E q \in test_users : q # r /\ q.id = id
        THEN /\ test_users' = last.found
             /\ outcome' = "IntegrityError"
             /\ rpc' = "done"
             /\ pending' = {}
             /\ count' = id
        ELSE /\ test_users' = (test_users \ {r}) \cup {[r EXCEPT !.id = id]}
             /\ count' = id
             /\ pending' = pending \ {r.id}
             /\ UNCHANGED <<outcome, rpc>>
  /\ UNCHANGED <<users_auto, last>>
  /\ ReindexRest

\* line 150: ALTER TABLE test_users AUTO_INCREMENT = 1; line 151: print
ReindexAlter ==
  /\ rpc = "update"
  /\ pending = {}
  /\ users_auto' = alter_auto_increment(test_users, 1)
  /\ outcome' = "ok"
  /\ rpc' = "done"
  /\ UNCHANGED <<test_users, last, count, pending>>
  /\ ReindexRest

CmdStart ==
  /\ last = NoCommand
  /\ rpc = "idle"
  /\ count = 0
  /\ pending = {}

\* ------------------------------------------------------------------------
\* main.py: main
\* ------------------------------------------------------------------------

\* lines 196-209: the arguments, the password, db = MySqlHelper(...)
MainPyConnect ==
  /\ mpc \in {"idle", "exited"}
  /\ mruns < MaxRuns
  /\ mruns' = mruns + 1
  /\ mpc' = "try"
  /\ mdb' = "open"
  /\ mraised' = None
  /\ mexit' = None
  /\ UNCHANGED <<usersVars, crawlVars, storeVars, baiduVars, saveVars,
                 pipeVars, delVars, txVars, cmdVars>>

\* lines 211-242: the try block has run the command; what the command
\* raised, if anything, is on its way out
Dispatched ==
  /\ mpc = "try"
  /\ mpc' = "finally"
  /\ mraised' = IF outcome' = "ok" THEN None ELSE Some(outcome')
  /\ UNCHANGED <<mdb, mexit, mruns>>
  /\ UNCHANGED <<email_unique, dpc, ids, chunk_i, total, removed, before,
                 statements, second, prev_total, inserted>>
  /\ UNCHANGED <<crawlVars, storeVars, baiduVars, saveVars, pipeVars, delVars, txVars, cmdVars>>

MainPyInsert ==
  /\ \E name \in UserNames, email \in InsertEmails : cmd_insert(name, email)
  /\ Dispatched

MainPySeed == cmd_seed /\ Dispatched

MainPyUpdateName ==
  /\ \E r \in test_users, name \in UserNames :
       name # r.name /\ cmd_update_name(r.id, name)
  /\ Dispatched

MainPyUpdateEmail ==
  /\ \E r \in test_users, email \in Emails :
       email # r.email /\ cmd_update_email(r.id, email)
  /\ Dispatched

MainPyDelete ==
  /\ \E r \in test_users : cmd_delete(r.id)
  /\ Dispatched

\* lines 243-244: finally: db.close(); then main returns or the exception
\* goes on
MainPyFinally ==
  /\ mpc = "finally"
  /\ mdb' = close(mdb, mraised)
  /\ mexit' = mraised
  /\ mpc' = "exited"
  /\ UNCHANGED <<mraised, mruns>>
  /\ UNCHANGED <<usersVars, crawlVars, storeVars, baiduVars, saveVars,
                 pipeVars, delVars, txVars, cmdVars>>

LifeStart ==
  /\ mpc = "idle"
  /\ mdb = "none"
  /\ mraised = None
  /\ mexit = None
  /\ mruns = 0

LifeOff ==
  /\ mpc = "off"
  /\ mdb = "none"
  /\ mraised = None
  /\ mexit = None
  /\ mruns = 0

\* ------------------------------------------------------------------------
\* Specifications
\* ------------------------------------------------------------------------
CrawlInit == CrawlStart /\ UsersOff /\ StoreStart /\ BaiduOff /\ SaveOff /\ PipeStart /\ LifeOff /\ DelStart /\ TxOff /\ CmdStart

CrawlNext == FetchPage \/ FetchFails \/ DedupeSortReturn

SpecCrawl == CrawlInit /\ [][CrawlNext]_vars

\* cmd_dedupe run alone: no other command runs between its loser query and
\* its return.
UsersInit == UsersStart /\ CrawlOff /\ StoreStart /\ BaiduOff /\ SaveOff /\ PipeStart /\ LifeOff /\ DelStart /\ TxOff /\ CmdStart

UsersNext ==
  \/ DedupeQuery
  \/ DedupeDelete
  \/ (dpc # "delete" /\ CmdInsert)
  \/ (dpc # "delete" /\ CmdUpdateName)
  \/ (dpc # "delete" /\ CmdUpdateEmail)
  \/ (dpc # "delete" /\ CmdDelete)

SpecUsers == UsersInit /\ [][UsersNext]_vars

\* cmd_dedupe run while other processes insert and seed: an insert or a seed
\* may come between any two statements of cmd_dedupe.
IngestNext ==
  \/ DedupeQuery
  \/ DedupeDelete
  \/ CmdInsert
  \/ CmdSeed

SpecIngest == UsersInit /\ [][IngestNext]_vars

\* cmd_tx_demo, again and again, with inserts and deletes between its runs.
TxInit ==
  /\ UsersStart /\ TxStart /\ CrawlOff /\ StoreStart /\ BaiduOff /\ SaveOff
  /\ PipeStart /\ LifeOff /\ DelStart /\ CmdStart

TxNext ==
  \/ TxBegin
  \/ TxFirstInsert
  \/ TxSecondInsert
  \/ TxCommit
  \/ TxExcept
  \/ TxFinally
  \/ TxCmdInsert
  \/ TxCmdDelete

SpecTx == TxInit /\ [][TxNext]_vars

\* Seeds, inserts and deletes, one command after another.
CommandsNext == SeqInsert \/ SeqSeed \/ SeqDelete

SpecCommands == UsersInit /\ [][CommandsNext]_vars

\* cmd_reindex, with inserts and deletes between its runs.
ReindexNext ==
  \/ SeqInsert
  \/ SeqDelete
  \/ ReindexSet
  \/ ReindexRow
  \/ ReindexAlter

SpecReindex == UsersInit /\ [][ReindexNext]_vars

\* cmd_dedupe run while other processes delete rows and change emails: a
\* cmd_delete or a cmd_update_email may come between any two statements of
\* cmd_dedupe. The inserts that make the duplicates come before its runs.
RaceNext ==
  \/ DedupeQuery
  \/ DedupeDelete
  \/ (dpc = "idle" /\ CmdInsert)
  \/ (dpc = "delete" /\ CmdDelete)
  \/ (dpc = "delete" /\ CmdUpdateEmail)

SpecRace == UsersInit /\ [][RaceNext]_vars

\* One process runs main, again and again: sequential calls.
StoreInit == StoreStart /\ CrawlOff /\ UsersOff /\ BaiduOff /\ SaveOff /\ PipeStart /\ LifeOff /\ DelStart /\ TxOff /\ CmdStart

SeqNext ==
  \/ BeginMain(1)
  \/ UpsertWrite(1)
  \/ UpsertSelect(1)
  \/ DimUpsert(1)
  \/ MapInsert(1)

SpecSeq == StoreInit /\ [][SeqNext]_vars

\* Two processes run main at the same time, each once and on one record:
\* two concurrent calls of upsert_movie and of ensure_dim_and_map.
ConcNext ==
  \E p \in Procs :
    \/ proc[p].run_no = 0 /\ BeginMain(p) /\ Len(proc'[p].movies) = 1
    \/ UpsertWrite(p)
    \/ UpsertSelect(p)
    \/ DimUpsert(p)
    \/ MapInsert(p)

SpecConc == StoreInit /\ [][ConcNext]_vars

\* One process runs main once while another client deletes movie and
\* dimension rows.
DeleteNext ==
  \/ (proc[1].run_no = 0 /\ BeginMain(1))
  \/ UpsertWrite(1)
  \/ UpsertSelect(1)
  \/ DimUpsert(1)
  \/ MapInsert(1)
  \/ DeleteMovie
  \/ DeleteDim

SpecDelete == StoreInit /\ [][DeleteNext]_vars

\* One run of main on a batch whose name lists hold blanks, repeats and None.
MapNext ==
  \/ BeginMapRun
  \/ UpsertWrite(1)
  \/ UpsertSelect(1)
  \/ DimUpsert(1)
  \/ MapInsert(1)

SpecMap == StoreInit /\ [][MapNext]_vars

\* One run of get_top_n on one document.
ExtractInit == BaiduStart /\ CrawlOff /\ UsersOff /\ StoreStart /\ SaveOff /\ PipeStart /\ LifeOff /\ DelStart /\ TxOff /\ CmdStart

ExtractNext ==
  \/ FetchHtml
  \/ FetchHtmlFails
  \/ ParseStructured
  \/ ParseFallback
  \/ ReturnTop

SpecExtract == ExtractInit /\ [][ExtractNext]_vars

\* Runs of the Baidu main, one after another, on what get_top_n can return.
SaveInit == SaveStart /\ CrawlOff /\ UsersOff /\ StoreStart /\ BaiduOff /\ PipeStart /\ LifeOff /\ DelStart /\ TxOff /\ CmdStart

SaveNext ==
  \/ BaiduMain
  \/ EnsureTable
  \/ StatementFails
  \/ SaveItems
  \/ BaiduFinally

SpecSave == SaveInit /\ [][SaveNext]_vars

\* Runs of the Douban main, one after another, each from its page fetches
\* to its exit; a fetched page holds at most one card, and the card links to
\* a subject page.
OneCardWithId ==
  /\ Len(all_items') <= Len(all_items) + 1
  /\ \A j \in 1..Len(all_items') : all_items'[j].douban_id # None

PipeInit ==
  /\ CrawlOff /\ StoreStart /\ UsersOff /\ BaiduOff /\ SaveOff /\ PipeStart
  /\ LifeOff /\ DelStart /\ TxOff /\ CmdStart

PipeNext ==
  \/ RunMain
  \/ (FetchPage /\ OneCardWithId)
  \/ FetchFails
  \/ DedupeSortReturn
  \/ MainCrawled
  \/ MainRaised
  \/ MainGone
  \/ UpsertWrite(1)
  \/ UpsertSelect(1)
  \/ DimUpsert(1)
  \/ MapInsert(1)

SpecPipeline == PipeInit /\ [][PipeNext]_vars

\* One of the three programs runs, from its connection to its exit:
\* main.py some commands one process after another, the Baidu main one
\* list, the Douban main one batch.
CloseInit ==
  /\ CrawlOff /\ StoreStart /\ BaiduOff /\ PipeStart /\ DelStart /\ TxOff /\ CmdStart
  /\ \/ UsersStart /\ LifeStart /\ SaveOff
     \/ UsersOff /\ LifeOff /\ SaveStart
     \/ UsersOff /\ LifeOff /\ SaveOff

CloseNext ==
  \/ MainPyConnect
  \/ MainPyInsert
  \/ MainPySeed
  \/ MainPyUpdateName
  \/ MainPyUpdateEmail
  \/ MainPyDelete
  \/ MainPyFinally
  \/ (saves = 0 /\ BaiduMain)
  \/ EnsureTable
  \/ StatementFails
  \/ SaveItems
  \/ BaiduFinally
  \/ (mpc = "off" /\ spc = "off" /\ proc[1].run_no = 0 /\ BeginMain(1))
  \/ UpsertWrite(1)
  \/ UpsertSelect(1)
  \/ DimUpsert(1)
  \/ MapInsert(1)

SpecClose == CloseInit /\ [][CloseNext]_vars

\* The extractors at work: either get_top_n on a Baidu document, or
\* crawl_top_n with parse_list on the Douban pages.
TitlesInit ==
  /\ UsersOff /\ StoreStart /\ SaveOff /\ PipeStart /\ LifeOff /\ DelStart /\ TxOff /\ CmdStart
  /\ \/ BaiduStart /\ CrawlOff
     \/ BaiduOff /\ CrawlStart

TitlesNext ==
  \/ FetchHtml
  \/ FetchHtmlFails
  \/ ParseStructured
  \/ ParseFallback
  \/ ReturnTop
  \/ FetchAndParse
  \/ FetchFails
  \/ DedupeSortReturn

SpecTitles == TitlesInit /\ [][TitlesNext]_vars

\* ------------------------------------------------------------------------
\* Claims about crawl_top_n (checked under SpecCrawl)
\* ------------------------------------------------------------------------

\* The dedup key as the claims state it: douban_id if present, else
\* (title, year).
ClaimKey(it) ==
  IF it.douban_id # None THEN <<"douban_id", The(it.douban_id)>>
  ELSE <<"title_year", it.title, it.year>>

FirstIndexOf(key) ==
  CHOOSE j \in 1..Len(all_items) :
    /\ ClaimKey(all_items[j]) = key
    /\ \A h \in 1..(j - 1) : ClaimKey(all_items[h]) # key

\* C7: the dedupe step outputs at most one item per dedup key, and the item
\* kept for a key is the first occurrence of that key in fetch order, with
\* exactly that occurrence's attributes.
C7_DedupeKeepsFirstOccurrence ==
  cpc = "returned" =>
    /\ \A i, j \in 1..Len(uniq) :
         ClaimKey(uniq[i]) = ClaimKey(uniq[j]) => i = j
    /\ \A i \in 1..Len(uniq) :
         uniq[i] = all_items[FirstIndexOf(ClaimKey(uniq[i]))]

\* A batch with the same key three times, each time with other attributes,
\* and the key is in the output.
C7_Witness ==
  /\ cpc = "returned"
  /\ \E i, j, k \in 1..Len(all_items) :
       /\ i < j /\ j < k
       /\ ClaimKey(all_items[i]) = ClaimKey(all_items[j])
       /\ ClaimKey(all_items[j]) = ClaimKey(all_items[k])
       /\ all_items[i] # all_items[j]
       /\ all_items[j] # all_items[k]
       /\ all_items[i] # all_items[k]
       /\ \E u \in 1..Len(uniq) : ClaimKey(uniq[u]) = ClaimKey(all_items[i])

\* C8: the output is sorted ascending by declared rank for every declared
\* rank value, every item with a missing rank comes after all items that
\* declare a rank, and the output has at most n items.
C8_SortedByDeclaredRank ==
  cpc = "returned" =>
    /\ \A i, j \in 1..Len(uniq) :
         (i < j /\ uniq[i].rank_no # None /\ uniq[j].rank_no # None)
           => The(uniq[i].rank_no) <= The(uniq[j].rank_no)
    /\ \A i, j \in 1..Len(uniq) :
         (uniq[i].rank_no = None /\ uniq[j].rank_no # None) => j < i
    /\ Len(uniq) <= top

\* ------------------------------------------------------------------------
\* Claims about cmd_dedupe (checked under SpecUsers)
\* ------------------------------------------------------------------------
MinIdRow(rows, e) ==
  CHOOSE r \in rows :
    /\ r.email = e
    /\ \A r2 \in rows : r2.email = e => r.id <= r2.id

DuplicateCount(rows) ==
  Cardinality(rows) - Cardinality({r.email : r \in rows})

\* C9: after cmd_dedupe has run alone, for every email exactly the row with
\* the smallest id among the rows that shared it remains, rows whose email
\* was not duplicated are untouched, and the reported removed count is
\* (rows before) minus (distinct emails), whatever the chunks were.
C9_DedupeKeepsSmallestId ==
  dpc = "done" =>
    /\ \A e \in {r.email : r \in before} :
         {r \in test_users : r.email = e} = {MinIdRow(before, e)}
    /\ \A r \in before :
         (\A r2 \in before : r2.email = r.email => r2 = r) => r \in test_users
    /\ test_users \subseteq before
    /\ Cardinality(before) - Cardinality(test_users) = DuplicateCount(before)
    /\ IF removed = None THEN DuplicateCount(before) = 0
       ELSE The(removed) = DuplicateCount(before)

\* Four rows shared one email: three losers, more than one DELETE, and the
\* row with the smallest id is what remains.
C9_Witness ==
  /\ dpc = "done"
  /\ statements >= 2
  /\ removed = Some(3)
  /\ Cardinality(before) = 4
  /\ \E r \in test_users : test_users = {r} /\ \A b \in before : r.id <= b.id

\* C10: a run of cmd_dedupe that starts right after a completed run finds
\* no loser row, issues no DELETE and leaves the table as it was.
C10_SecondRunRemovesNothing ==
  second /\ dpc \in {"delete", "done"} =>
    /\ dpc = "done"
    /\ ids = <<>>
    /\ statements = 0
    /\ removed = None
    /\ test_users = before

\* A second run after a run that removed rows.
C10_Witness ==
  /\ dpc = "done"
  /\ second
  /\ prev_total > 0

\* C11: under any interleaving of the loser query and the chunked DELETEs
\* with concurrent cmd_insert and cmd_seed, every email that had a row when
\* the loser query ran still has a row (its row of smallest id) afterwards,
\* and no row inserted after the loser query is deleted in this pass.
C11_DedupeSafeUnderIngestion ==
  dpc \in {"delete", "done"} =>
    /\ \A e \in {r.email : r \in before} :
         /\ \E r \in test_users : r.email = e
         /\ MinIdRow(before, e) \in test_users
    /\ inserted \subseteq test_users

\* A pass that deleted a row while a seed and an insert of the email under
\* repair came in between the loser query and the DELETE.
C11_Witness ==
  /\ dpc = "done"
  /\ statements >= 1
  /\ removed # None
  /\ \E r \in inserted : r.email = SAMPLE_USERS[1][2]
  /\ \E r \in inserted, b1, b2 \in before :
       b1 # b2 /\ b1.email = r.email /\ b2.email = r.email

\* ------------------------------------------------------------------------
\* Claims about get_top_n (checked under SpecExtract)
\* ------------------------------------------------------------------------
TitleFields == {"word", "query", "title", "content"}

\* An items list with an entry that is not an object, or whose title field
\* is not a string.
BadEntry(it) ==
  \/ it.t # "dict"
  \/ \E k \in TitleFields : HasKey(it, k) /\ Get(it, k).t # "str"

Malformed(doc) ==
  \/ doc.state.t \in {"nomatch", "badjson"}
  \/ /\ dig(doc.state) # None
     /\ \E j \in 1..Len(The(dig(doc.state))) : BadEntry(The(dig(doc.state))[j])

\* C12: for every document whose embedded data is malformed (no match,
\* invalid JSON, an items list with an entry that is not an object or with a
\* title that is not a string), the structured strategy raises no error and
\* get_top_n returns the output of the fallback HTML strategy.
C12_MalformedDataFallsBack ==
  (Malformed(html) /\ bpc \notin {"fetch", "structured"}) =>
    /\ structured.error = None
    /\ bpc = "returned" => top_items = truncate(parse_from_html(html), want)

StructuredYield ==
  IF structured.value = None THEN <<>> ELSE The(structured.value)

\* C13: get_top_n, for n >= 1, returns an empty list only when both the
\* structured strategy and the fallback HTML strategy yield no item; if
\* either yields an item, the result is not empty.
C13_EmptyOnlyIfBothEmpty ==
  (bpc = "returned" /\ want >= 1) =>
    (top_items = <<>> <=>
       (StructuredYield = <<>> /\ parse_from_html(html) = <<>>))

\* ------------------------------------------------------------------------
\* Claims about save_items (checked under SpecSave)
\* ------------------------------------------------------------------------

\* The latest run of main has executed save_items.
Saved == spc \in {"finally", "exited"} /\ bdb # "none" /\ berror = None

\* The latest sighting of a title in the batch just saved.
LastSighting(title) ==
  saving[CHOOSE k \in 1..Len(saving) :
           /\ saving[k].title = title
           /\ \A h \in (k + 1)..Len(saving) : saving[h].title # title]

\* The rows that existed before the call and that the call sighted again.
Resighted ==
  {old \in pre : /\ old.grabbed_date = Date(now)
                 /\ \E k \in 1..Len(saving) : saving[k].title = old.title}

\* C14 as stated: when save_items re-sights an item whose (title, grabbed
\* day) row exists, the row's rank_no, url and grabbed_at are all overwritten
\* with the values of the new sighting, and the row keeps its id.
C14_ResightingOverwritesAll ==
  Saved =>
    \A old \in Resighted :
      \E r \in baidu_hotsearch :
        /\ r.id = old.id
        /\ r.title = old.title
        /\ r.rank_no = LastSighting(old.title).rank
        /\ r.url = LastSighting(old.title).url
        /\ r.grabbed_at = now

\* C14 as amended: when save_items re-sights an item whose (title, grabbed
\* day) row exists, the row's url and grabbed_at are overwritten with the
\* values of the new sighting, its rank_no stays as stored, and the row
\* keeps its id.
C14_ResightingOverwritesUrlAndTime ==
  Saved =>
    \A old \in Resighted :
      \E r \in baidu_hotsearch :
        /\ r.id = old.id
        /\ r.title = old.title
        /\ r.rank_no = old.rank_no
        /\ r.url = LastSighting(old.title).url
        /\ r.grabbed_at = now

\* A title stored earlier the same day is sighted again with another rank
\* and another url.
C14_Witness ==
  /\ Saved
  /\ \E old \in Resighted :
       /\ LastSighting(old.title).rank # old.rank_no
       /\ LastSighting(old.title).url # old.url
       /\ old.grabbed_at # now

SameTitleDay(r1, r2) ==
  r1.title = r2.title /\ r1.grabbed_date = r2.grabbed_date

\* C15: after any sequence of save_items calls, also with batches that
\* hold a title more than once, baidu_hotsearch has at most one row per
\* (title, grabbed day); a title repeated on a day updates the row it has
\* and adds none.
C15_OneRowPerTitleAndDay ==
  /\ \A r1, r2 \in baidu_hotsearch : SameTitleDay(r1, r2) => r1 = r2
  /\ Saved =>
       /\ \A k \in 1..Len(saving) :
            Cardinality({r \in baidu_hotsearch :
                           /\ r.title = saving[k].title
                           /\ r.grabbed_date = Date(now)}) = 1
       /\ Cardinality(baidu_hotsearch) =
            Cardinality(pre)
            + Cardinality({saving[k].title : k \in 1..Len(saving)}
                          \ {old.title : old \in Resighted})
       /\ {r.id : r \in pre} \subseteq {r.id : r \in baidu_hotsearch}

\* A batch that holds a title twice, one of its titles stored already that
\* day.
C15_Witness ==
  /\ Saved
  /\ \E j, k \in 1..Len(saving) : j < k /\ saving[j].title = saving[k].title
  /\ \E old \in Resighted : LastSighting(old.title).url # old.url

\* ------------------------------------------------------------------------
\* Claims about a whole run of the Douban main (checked under SpecPipeline)
\* ------------------------------------------------------------------------

\* C16: in a Douban crawl run the pages are fetched one after another, and
\* once the fetch of a page has failed no later page is fetched, no store
\* connection is opened and no row is written: in every step into or out of
\* the failed state the tables stay as they are, and they are as they were
\* when the run began.
C16_FetchFailureAbortsRun ==
  [][(cpc = "raised" \/ cpc' = "raised") =>
       /\ Tables' = Tables
       /\ proc'[1].db = "none"
       /\ page_i' <= page_i
       /\ all_items' = all_items \/ cpc' = "off"
       /\ cpc' = "raised" => (Tables' = at_start' /\ page_i' < pages(top'))]_vars

\* The second page of a run failed after the first was fetched, the process
\* has exited with the exception, and an earlier run had stored a movie.
C16_Witness ==
  /\ cpc = "raised"
  /\ page_i = 1
  /\ all_items # <<>>
  /\ proc[1].error = Some("RequestException")
  /\ douban_movies # {}

\* ------------------------------------------------------------------------
\* Claims about upsert_movie and ensure_dim_and_map
\* (sequential calls under SpecSeq, concurrent calls under SpecConc)
\* ------------------------------------------------------------------------
RowsOf(d) == {r \in douban_movies : r.douban_id = d}

\* A call of upsert_movie has written and not yet returned.
WritePending(d) ==
  \E p \in Procs :
    proc[p].pc = "select" /\ proc[p].movies[proc[p].i].douban_id = d

SameAttributes(r, m) ==
  /\ r.douban_id = m.douban_id
  /\ r.rank_no = m.rank_no
  /\ r.title = m.title
  /\ r.year = m.year

\* C1: two sequential upsert_movie calls with the same douban_id leave
\* exactly one row for that douban_id, whose attributes are those of the
\* later call, and both calls return the same id.
C1_UpsertConvergence ==
  \A i, j \in 1..Len(calls) :
    (i < j /\ calls[i].m.douban_id # None
           /\ calls[i].m.douban_id = calls[j].m.douban_id) =>
      /\ calls[i].ret # None
      /\ calls[j].ret = calls[i].ret
      /\ \E r \in douban_movies : RowsOf(calls[j].m.douban_id) = {r}
      /\ ( /\ ~WritePending(calls[j].m.douban_id)
           /\ \A h \in (j + 1)..Len(calls) :
                calls[h].m.douban_id # calls[j].m.douban_id )
         => \A r \in RowsOf(calls[j].m.douban_id) :
              SameAttributes(r, calls[j].m) /\ r.id = The(calls[j].ret)

\* Two calls in a row, same douban_id, another title the second time.
C1_Witness ==
  /\ Len(calls) = 2
  /\ calls[1].m.douban_id # None
  /\ calls[1].m.douban_id = calls[2].m.douban_id
  /\ calls[1].m.title # calls[2].m.title
  /\ calls[2].ret # None
  /\ proc[1].pc = "idle"

\* C2: under any interleaving of two concurrent upsert_movie calls with the
\* same douban_id, exactly one row exists for that douban_id in every state
\* after the first write, and each call returns that row's id.
C2_ConcurrentUpsertOneRow ==
  /\ \A p \in Procs :
       proc[p].pc = "select" =>
         \E r \in douban_movies :
           RowsOf(proc[p].movies[proc[p].i].douban_id) = {r}
  /\ \A i \in 1..Len(calls) :
       calls[i].m.douban_id # None =>
         /\ calls[i].ret # None
         /\ \E r \in douban_movies :
              /\ RowsOf(calls[i].m.douban_id) = {r}
              /\ r.id = The(calls[i].ret)

\* Both calls have written the same douban_id and neither has read the id.
C2_Witness ==
  /\ proc[1].pc = "select"
  /\ proc[2].pc = "select"
  /\ proc[1].movies[1].douban_id = proc[2].movies[1].douban_id
  /\ proc[1].movies[1].title # proc[2].movies[1].title

\* C3: for a record without a douban_id, upsert_movie persists exactly one
\* row for its (title, year), returns that row's id, and a repeated call
\* gives the same row.
C3_AbsentIdUsesTitleYear ==
  \A i \in 1..Len(calls) :
    calls[i].m.douban_id = None =>
      /\ calls[i].ret # None
      /\ \E r \in douban_movies :
           /\ {x \in douban_movies :
                 x.title = calls[i].m.title /\ x.year = calls[i].m.year} = {r}
           /\ r.id = The(calls[i].ret)

\* C4: main run twice on the same batch leaves the same movie, dimension
\* and association rows, with the same ids, as main run once (the rows are
\* compared in every column but grabbed_at, the time of the sighting).
C4_PipelineIdempotent ==
  ( /\ proc[1].pc = "idle"
    /\ proc[1].run_no >= 2
    /\ prev_batch = Some(proc[1].movies) )
  => Identities = snap

\* A second run of a batch of two movies with genres and countries.
C4_Witness ==
  /\ proc[1].pc = "idle"
  /\ proc[1].run_no = 2
  /\ proc[1].error = None
  /\ prev_batch = Some(proc[1].movies)
  /\ Len(proc[1].movies) = 2
  /\ \A i \in 1..2 : proc[1].movies[i].countries # <<>>
  /\ Cardinality(douban_movies) = 2
  /\ BagCardinality(map_rows["genre"]) = 2

\* C5: under any interleaving of two ensure_dim_and_map calls that both
\* introduce the same new name, the dimension table has exactly one row for
\* that name and both calls obtain that row's id.
C5_DimensionRaceSafe ==
  /\ \A kd \in Kinds : \A r1, r2 \in dim_rows[kd] :
       r1.name = r2.name => r1 = r2
  /\ \A g \in dim_got :
       \E r \in dim_rows[g.kind] : r.name = g.name /\ r.id = g.id

\* Both calls have upserted the same name and neither has mapped it yet.
C5_Witness ==
  /\ proc[1].pc = "map"
  /\ proc[2].pc = "map"
  /\ proc[1].kind = proc[2].kind
  /\ proc[1].names[proc[1].k] = proc[2].names[proc[2].k]
  /\ proc[1].mid # proc[2].mid

\* C6: however often ensure_dim_and_map is called with the same movie id
\* and the same name, there is exactly one association row for the pair, and
\* no call fails because the association exists already.
C6_AssociationIdempotent ==
  /\ \A a \in BagToSet(attempts) : CopiesIn(a.row, map_rows[a.kind]) = 1
  /\ \A kd \in Kinds : \A row \in BagToSet(map_rows[kd]) :
       CopiesIn(row, map_rows[kd]) = 1
  /\ \A p \in Procs : proc[p].error # Some("DuplicateEntry")

\* The same pair has been inserted twice.
C6_Witness ==
  /\ proc[1].pc = "idle"
  /\ proc[1].error = None
  /\ \E a \in BagToSet(attempts) : CopiesIn(a, attempts) >= 2

\* ------------------------------------------------------------------------
\* C17: in each of the three programs, a process that has opened the store
\* connection has closed it when it has exited, whether the command or the
\* loop over the records ended normally or raised, and what was raised is
\* what the process ends with: main.py ends with the error of its command,
\* the Baidu main with the error of its statement, the Douban main with an
\* error exactly when its last upsert_movie call returned nothing.  While a
\* program is between its connection and its finally, the connection is
\* open.
C17_CloseOnEveryPath ==
  /\ mpc = "exited" =>
       /\ mdb = "closed"
       /\ mexit = (IF outcome = "ok" THEN None ELSE Some(outcome))
  /\ mpc \in {"try", "finally"} => mdb = "open"
  /\ spc = "exited" =>
       /\ bdb \in {"none", "closed"}
       /\ bexit = berror
       /\ saving = <<>> => bdb = "none"
  /\ spc \in {"try", "save", "finally"} => bdb = "open"
  /\ \A p \in DOMAIN proc :
       /\ (proc[p].pc = "idle" /\ proc[p].run_no > 0) =>
            /\ proc[p].db = "closed"
            /\ proc[p].movies # <<>> =>
                 (proc[p].error # None <=> calls[Len(calls)].ret = None)
            /\ proc[p].movies = <<>> => proc[p].error = None
       /\ proc[p].pc # "idle" => proc[p].db = "open"

\* The Douban main has exited: its loop stored the first record of a batch
\* of two and raised on the second; the connection is closed and the error
\* is the one the process ends with.
C17_Witness ==
  /\ proc[1].pc = "idle"
  /\ proc[1].run_no = 1
  /\ Len(proc[1].movies) = 2
  /\ Len(calls) = 2
  /\ calls[1].ret # None
  /\ calls[2].ret = None
  /\ proc[1].error # None
  /\ proc[1].db = "closed"
  /\ douban_movies # {}

\* ------------------------------------------------------------------------
\* C18: every item an extractor has emitted has a non-empty title: the
\* items of parse_from_initial_state, the items get_top_n returns (from
\* either Baidu extractor), and the items of parse_list collected by
\* crawl_top_n and handed to the dedupe step and on to main.
EmittedTitles ==
  {all_items[j].title : j \in 1..Len(all_items)}
  \cup {uniq[j].title : j \in 1..Len(uniq)}
  \cup {top_items[j].title : j \in 1..Len(top_items)}
  \cup (IF structured.value = None THEN {}
        ELSE {The(structured.value)[j].title :
                j \in 1..Len(The(structured.value))})

C18_EmittedTitlesNonEmpty == \A title \in EmittedTitles : title # <<>>

\* ------------------------------------------------------------------------
\* C19: in every state reached by upsert_movie, ensure_dim_and_map and
\* deletions of movie and dimension rows, the movie id and the dimension
\* id of every association row are ids of existing rows: a deletion of a
\* parent has taken its associations along, and an association insert for
\* a movie or a dimension row that is gone has inserted nothing.
C19_AssociationsReferToExistingRows ==
  \A kd \in Kinds : \A row \in DOMAIN map_rows[kd] :
    /\ \E r \in douban_movies : r.id = row.movie_id
    /\ \E r \in dim_rows[kd] : r.id = row.dim_id

\* A deletion has cascaded, and main has ended without an error although
\* one of its association inserts came after its movie row was deleted:
\* the attempted row was never stored (it is neither in the table nor among
\* the cascaded rows) while its dimension row exists.
C19_Witness ==
  /\ cascaded # {}
  /\ proc[1].pc = "idle" /\ proc[1].run_no = 1 /\ proc[1].error = None
  /\ \E x \in DOMAIN attempts :
       /\ x \notin cascaded
       /\ ~BagIn(x.row, map_rows[x.kind])
       /\ \E r \in dim_rows[x.kind] : r.id = x.row.dim_id
       /\ ~\E r \in douban_movies : r.id = x.row.movie_id

\* ------------------------------------------------------------------------
\* C20: cmd_tx_demo is all-or-nothing.  When it has returned, either both
\* of its rows are in test_users or neither is, and nothing else changed;
\* with the UNIQUE index on email the second insert fails at the latest,
\* so the table is what it was when cmd_tx_demo was entered, without the
\* first insert.  While cmd_tx_demo is at work nothing of it is committed,
\* and it leaves no transaction open and autocommit on.
TxRows(names) ==
  {r \in test_users \ tx_before : r.name \in names /\ r.email = TxEmail}

EmailsOf(rows) == {r.email : r \in rows}

\* the latest command was cmd_seed on a table that held every sample email
DuplicateSeed ==
  /\ last.cmd = "seed"
  /\ \A i \in 1..Len(SAMPLE_USERS) : SAMPLE_USERS[i][2] \in EmailsOf(last.found)

\* the latest command was cmd_insert of an email the table held
DuplicateInsert ==
  /\ last.cmd = "insert"
  /\ last.email \in EmailsOf(last.found)

\* C21 as stated: a duplicate-insert attempt, by cmd_seed or by cmd_insert,
\* leaves test_users unchanged and ends as a success.
C21_DuplicateInsertIsNoOp ==
  (DuplicateSeed \/ DuplicateInsert) =>
    /\ test_users = last.found
    /\ outcome = "ok"

\* C21 amended: on a table with the UNIQUE index on email, cmd_seed on rows
\* already seeded leaves test_users unchanged and ends as a success, while
\* cmd_insert of an email already present leaves test_users unchanged and
\* ends with an integrity error.
C21_DuplicateSeedNoOpInsertFails ==
  email_unique =>
    /\ DuplicateSeed => (test_users = last.found /\ outcome = "ok")
    /\ DuplicateInsert =>
         (test_users = last.found /\ outcome = "IntegrityError")

\* cmd_insert of a taken email has failed on a table with the index: the
\* table is what it was, the AUTO_INCREMENT value the statement reserved is
\* used up.
C21_Witness ==
  /\ email_unique
  /\ DuplicateInsert
  /\ outcome = "IntegrityError"
  /\ test_users = last.found
  /\ \A r \in test_users : users_auto > r.id + 1

\* ------------------------------------------------------------------------
\* Claims about ensure_dim_and_map's name lists (checked under SpecMap)
\* ------------------------------------------------------------------------
\* the positions of names that hold the first occurrence of a trimmed,
\* non-empty name
FirstSeen(names) ==
  {j \in 1..Len(names) :
     /\ strip(names[j]) # <<>>
     /\ \A h \in 1..(j - 1) : strip(names[h]) # strip(names[j])}

NamesOf(m, kd) == IF kd = "genre" THEN m.genres ELSE m.countries

\* the ensure_dim_and_map calls of kind kd that main has finished: those of
\* the records before the current one, and that of the current record when
\* main is past it
Finished(pr, kd) ==
  {i \in 1..Len(pr.movies) :
     \/ pr.pc = "idle" /\ pr.error = None
     \/ pr.pc # "idle" /\ i < pr.i
     \/ pr.pc \in {"dim", "map"} /\ i = pr.i /\ kd = "genre"
        /\ pr.kind = "country"}

RECURSIVE SumOver(_, _, _)
SumOver(S, m, kd) ==
  IF S = {} THEN 0
  ELSE LET i == CHOOSE i \in S : TRUE
       IN Cardinality(FirstSeen(NamesOf(m[i], kd))) + SumOver(S \ {i}, m, kd)

\* the statements of kind kd the call under way has executed
UnderWay(pr, kd) ==
  IF pr.pc \in {"dim", "map"} /\ pr.kind = kd
  THEN [dims |-> IF pr.pc = "map" THEN pr.k ELSE pr.k - 1, maps |-> pr.k - 1]
  ELSE [dims |-> 0, maps |-> 0]

MapAttempts(kd) ==
  LET S == {x \in DOMAIN attempts : x.kind = kd}
      RECURSIVE Count(_)
      Count(T) == IF T = {} THEN 0
                  ELSE LET x == CHOOSE x \in T : TRUE
                       IN attempts[x] + Count(T \ {x})
  IN Count(S)

\* C22: ensure_dim_and_map executes one dimension get-or-create and one
\* association insert per distinct trimmed non-empty name, in first-seen
\* order, and nothing for a list that is empty, None or normalizes to
\* empty.  Every dimension statement uses up one AUTO_INCREMENT value and
\* every association insert is recorded, so the statements can be counted:
\* after the finished calls and the part of the call under way, their
\* numbers are the numbers of first-seen names; the call under way is at
\* the first-seen name of its position; a dimension row exists for every
\* first-seen name of a finished call and for no other name; and main ends
\* without an error.
C22_OneGetOrCreatePerDistinctName ==
  LET pr == proc[1]
  IN /\ \A kd \in Kinds :
          /\ dim_auto[kd] - 1 =
               SumOver(Finished(pr, kd), pr.movies, kd) + UnderWay(pr, kd).dims
          /\ MapAttempts(kd) =
               SumOver(Finished(pr, kd), pr.movies, kd) + UnderWay(pr, kd).maps
          /\ \A i \in Finished(pr, kd) :
               \A j \in FirstSeen(NamesOf(pr.movies[i], kd)) :
                 \E r \in dim_rows[kd] :
                   r.name = strip(NamesOf(pr.movies[i], kd)[j])
          /\ \A r \in dim_rows[kd] :
               \E i \in 1..Len(pr.movies) :
                 \E j \in FirstSeen(NamesOf(pr.movies[i], kd)) :
                   r.name = strip(NamesOf(pr.movies[i], kd)[j])
     /\ pr.pc \in {"dim", "map"} =>
          LET names == NamesOf(pr.movies[pr.i], pr.kind)
          IN /\ Len(pr.names) = Cardinality(FirstSeen(names))
             /\ \E j \in FirstSeen(names) :
                  /\ pr.names[pr.k] = strip(names[j])
                  /\ Cardinality({h \in FirstSeen(names) : h < j}) = pr.k - 1
     /\ pr.error = None

\* main has ended on a batch of two records: the first with lists that
\* normalize to nothing, the second with padded, repeated and empty names;
\* the genre table has the two names of the second record, in the order
\* they were first seen.
C22_Witness ==
  /\ proc[1].pc = "idle" /\ proc[1].run_no = 1 /\ proc[1].error = None
  /\ Len(proc[1].movies) = 2
  /\ proc[1].movies[1].genres = OnlyBlanks[1]
  /\ proc[1].movies[2].genres = Mixed[1]
  /\ dim_auto["genre"] = 3
  /\ \E r1, r2 \in dim_rows["genre"] :
       r1.name = G /\ r2.name = H /\ r1.id < r2.id
  /\ MapAttempts("country") = 1

\* ---- cmd_reindex renumbers the rows 1..N ----

Reindexed == last.cmd = "reindex" /\ rpc = "done"

\* the position of a row among the rows of a table, by id
RankById(rows, r) == Cardinality({q \in rows : q.id <= r.id})

\* C23: once cmd_reindex has ended on a table of N rows it has ended
\* without an error, the ids are exactly 1..N, and every row it found is
\* there with its name and email and with the id of its position by id
\* among the rows found, so the order by id is kept; while the UPDATE is
\* under way no row has been given an id another row holds: the rows are
\* as many as were found and no two share an id.
C23_ReindexRenumbersInOrder ==
  /\ Reindexed =>
       LET N == Cardinality(last.found)
       IN /\ outcome = "ok"
          /\ {r.id : r \in test_users} = 1..N
          /\ Cardinality(test_users) = N
          /\ \A r \in last.found :
               [r EXCEPT !.id = RankById(last.found, r)] \in test_users
  /\ last.cmd = "reindex" =>
       /\ Cardinality(test_users) = Cardinality(last.found)
       /\ \A r, q \in test_users : r.id = q.id => r = q
       /\ rpc = "update" =>
            /\ count = Cardinality(last.found) - Cardinality(pending)
            /\ \A r \in test_users : r.id \in pending \/ r.id \in 1..count

\* cmd_reindex has ended on a table of at least two rows whose ids had a
\* gap below the first row and another between two rows.
C23_Witness ==
  /\ Reindexed
  /\ Cardinality(last.found) >= 2
  /\ \A r \in last.found : r.id > RankById(last.found, r)
  /\ \E r \in last.found : r.id > RankById(last.found, r) + 1
  /\ \E r \in last.found : r.id = RankById(last.found, r) + 1
  /\ users_auto = Cardinality(last.found) + 1

\* ---- cmd_dedupe while rows are deleted and emails changed ----

\* the rows a step of cmd_dedupe's DELETE takes from the table
DeletedByDedupe == IF statements' = statements + 1
                   THEN test_users \ test_users' ELSE {}

\* C24: whenever a DELETE of cmd_dedupe removes a row, the table holds at
\* that moment another row with the same email and a smaller id, whatever
\* cmd_delete and cmd_update_email have done since the loser query.
C24_DedupeDeletesOnlyDuplicates ==
  [][\A r \in DeletedByDedupe :
       \E q \in test_users : q.email = r.email /\ q.id < r.id]_vars

====
